---------------------------- MODULE Spec2Model ----------------------------
(***************************************************************************)
(* A model of the d365_odata query engine: the expression AST and its      *)
(* constructors (ast.py), the three flatteners (flatten.py), the target    *)
(* capability model (targets.py), the schema lookups (metadata.py), the    *)
(* validator (validator.py), the wire compiler (compiler.py) and the       *)
(* fluent Query / ExpandQuery objects (query.py).                          *)
(*                                                                         *)
(* Python values are tagged records (field ty); text is a TLA+ string and  *)
(* is taken apart character by character with SubSeq.  An optional value   *)
(* (Optional[...] = None) is a sequence of length 0 or 1.  A Python        *)
(* exception is a record of ty "raise" that carries the exception class    *)
(* and its message.  Python sets are not modelled as inputs (their         *)
(* iteration order is sorted() by the flatteners; nothing below needs it). *)
(***************************************************************************)
EXTENDS Integers, Sequences, FiniteSets, TLC

VARIABLES
    metadata,   \* Query._metadata: <<>> (None) or <<schema>>
    root,       \* the Query object and, under expand, its ExpandQuery tree
    ret,        \* what the last call on the query returned or raised
    ncalls,     \* builder calls made so far
    fn,         \* pure-function harness: the function under test
    arg,        \* pure-function harness: its argument tuple (*items)
    out,        \* pure-function harness: its result
    out2        \* pure-function harness: the result of the second application

vars == <<metadata, root, ret, ncalls, fn, arg, out, out2>>

-----------------------------------------------------------------------------
(* Bounds of the model.                                                    *)

\* builder calls per query
MaxCalls == 3
\* positional arguments handed to a flattener
MaxArgs == 2
\* operands handed to an And / Or constructor
MaxTerms == 3

-----------------------------------------------------------------------------
(* Text.                                                                   *)

None == <<>>
Some(x) == <<x>>

Ch(s, i) == SubSeq(s, i, i)

UpperChars == "ABCDEFGHIJKLMNOPQRSTUVWXYZ"
LowerChars == "abcdefghijklmnopqrstuvwxyz"

\* str.lower() on one character
LowerChar(c) ==
    IF \E i \in 1..Len(UpperChars) : Ch(UpperChars, i) = c
    THEN LET i == CHOOSE j \in 1..Len(UpperChars) : Ch(UpperChars, j) = c
         IN  Ch(LowerChars, i)
    ELSE c

RECURSIVE lower(_)
lower(s) == IF Len(s) = 0 THEN ""
            ELSE LowerChar(Ch(s, 1)) \o lower(SubSeq(s, 2, Len(s)))

IsSpace(c) == c \in {" ", "\t", "\n", "\r"}

RECURSIVE lstrip(_)
lstrip(s) == IF Len(s) > 0 /\ IsSpace(Ch(s, 1))
             THEN lstrip(SubSeq(s, 2, Len(s))) ELSE s

RECURSIVE rstrip(_)
rstrip(s) == IF Len(s) > 0 /\ IsSpace(Ch(s, Len(s)))
             THEN rstrip(SubSeq(s, 1, Len(s) - 1)) ELSE s

\* str.strip()
strip(s) == rstrip(lstrip(s))

\* length of the longest prefix of s without white space
RECURSIVE WordLen(_)
WordLen(s) == IF Len(s) = 0 \/ IsSpace(Ch(s, 1)) THEN 0
              ELSE 1 + WordLen(SubSeq(s, 2, Len(s)))

\* str.split(): the white-space separated words of s
RECURSIVE split(_)
split(s) ==
    LET t == lstrip(s) IN
    IF Len(t) = 0 THEN <<>>
    ELSE LET n == WordLen(t)
         IN  <<SubSeq(t, 1, n)>> \o split(SubSeq(t, n + 1, Len(t)))

\* str.replace("'", "''")
RECURSIVE escape_quotes(_)
escape_quotes(s) ==
    IF Len(s) = 0 THEN ""
    ELSE (IF Ch(s, 1) = "'" THEN "''" ELSE Ch(s, 1))
         \o escape_quotes(SubSeq(s, 2, Len(s)))

\* sep.join(parts)
RECURSIVE join(_, _)
join(sep, parts) ==
    IF Len(parts) = 0 THEN ""
    ELSE IF Len(parts) = 1 THEN parts[1]
    ELSE parts[1] \o sep \o join(sep, Tail(parts))

Range(seq) == {seq[i] : i \in DOMAIN seq}

\* the sequences over S of length lo..hi
SeqsOf(S, lo, hi) == UNION {[1..n -> S] : n \in lo..hi}

-----------------------------------------------------------------------------
(* Python values and exceptions.                                           *)

PyNone == [ty |-> "none"]
PyStr(s) == [ty |-> "str", s |-> s]
PyInt(n) == [ty |-> "int", n |-> n]
PyBool(b) == [ty |-> "bool", b |-> b]
PyList(items) == [ty |-> "list", items |-> items]
PyTuple(items) == [ty |-> "tuple", items |-> items]

Raise(exc, msg) == [ty |-> "raise", exc |-> exc, msg |-> msg]
Return(val) == [ty |-> "return", val |-> val]
IsRaise(r) == r.ty = "raise"

\* isinstance(x, (tuple, list)); with str these are the iterables modelled
IsListOrTuple(x) == x.ty \in {"list", "tuple"}

OrderByItem(field, desc) == [ty |-> "OrderByItem", field |-> field, desc |-> desc]

-----------------------------------------------------------------------------
(* flatten.py: flatten_exprs.                                              *)

RECURSIVE walk_exprs(_, _), walk_exprs_each(_, _, _)

\* walk(x) of flatten_exprs; acc is Return(out) or the exception raised so far
walk_exprs(x, acc) ==
    IF IsRaise(acc) THEN acc
    ELSE IF x.ty = "none" THEN acc
    ELSE IF x.ty = "str"
         THEN Raise("TypeError", "Expected Expr or iterable[Expr], got str")
    ELSE IF ~IsListOrTuple(x) THEN Return(Append(acc.val, x))
    ELSE walk_exprs_each(x.items, 1, acc)

\* for y in x: walk(y)
walk_exprs_each(items, i, acc) ==
    IF i > Len(items) \/ IsRaise(acc) THEN acc
    ELSE walk_exprs_each(items, i + 1, walk_exprs(items[i], acc))

flatten_exprs(items) == walk_exprs_each(items, 1, Return(<<>>))

-----------------------------------------------------------------------------
(* flatten.py: flatten_fields.                                             *)

\* add_one(s): strip, drop the empty name, drop a name already seen
add_one(s, acc) ==
    LET s2 == strip(s) IN
    IF Len(s2) = 0 THEN acc
    ELSE IF s2 \in Range(acc.val) THEN acc
    ELSE Return(Append(acc.val, s2))

RECURSIVE walk_fields(_, _), walk_fields_each(_, _, _)

walk_fields(x, acc) ==
    IF IsRaise(acc) THEN acc
    ELSE IF x.ty = "none" THEN acc
    ELSE IF x.ty = "str" THEN add_one(x.s, acc)
    ELSE IF IsListOrTuple(x) THEN walk_fields_each(x.items, 1, acc)
    ELSE Raise("TypeError", "select() expected str or iterable[str], got " \o x.ty)

walk_fields_each(items, i, acc) ==
    IF i > Len(items) \/ IsRaise(acc) THEN acc
    ELSE walk_fields_each(items, i + 1, walk_fields(items[i], acc))

flatten_fields(items) == walk_fields_each(items, 1, Return(<<>>))

-----------------------------------------------------------------------------
(* flatten.py: flatten_orderby.  The accumulator holds order_sequence      *)
(* (seq, first-seen order of the fields) and order_map (map, field ->      *)
(* desc).                                                                  *)

OrderAcc(seq, map) == [ty |-> "return", seq |-> seq, map |-> map]

\* add(field, desc): the last direction wins, the position is the first one
add(field, desc, acc) ==
    LET f == strip(field) IN
    IF Len(f) = 0 THEN acc
    ELSE OrderAcc(IF f \in DOMAIN acc.map THEN acc.seq ELSE Append(acc.seq, f),
                  [k \in DOMAIN acc.map \cup {f} |->
                      IF k = f THEN desc ELSE acc.map[k]])

\* the string forms "Name", "Name asc", "Name desc"
walk_orderby_str(s, acc) ==
    LET parts == split(strip(s)) IN
    IF Len(parts) = 1 THEN add(parts[1], FALSE, acc)
    ELSE IF Len(parts) = 2 /\ lower(parts[2]) \in {"asc", "desc"}
         THEN add(parts[1], lower(parts[2]) = "desc", acc)
    ELSE Raise("ValueError", "Invalid orderby string")

\* isinstance(x, (tuple, list)) and len(x) == 2 and isinstance(x[0], str)
IsOrderPair(x) ==
    /\ IsListOrTuple(x)
    /\ Len(x.items) = 2
    /\ x.items[1].ty = "str"

\* the pair forms ("Name", "desc") and ("Name", True)
walk_orderby_pair(x, acc) ==
    LET field == x.items[1].s
        d == x.items[2]
    IN  IF d.ty = "bool" THEN add(field, d.b, acc)
        ELSE IF d.ty = "str" /\ lower(d.s) \in {"asc", "desc"}
             THEN add(field, lower(d.s) = "desc", acc)
        ELSE Raise("ValueError", "Invalid orderby tuple")

RECURSIVE walk_orderby(_, _), walk_orderby_each(_, _, _)

walk_orderby(x, acc) ==
    IF IsRaise(acc) THEN acc
    ELSE IF x.ty = "none" THEN acc
    ELSE IF x.ty = "str" THEN walk_orderby_str(x.s, acc)
    ELSE IF IsOrderPair(x) THEN walk_orderby_pair(x, acc)
    ELSE IF IsListOrTuple(x) THEN walk_orderby_each(x.items, 1, acc)
    ELSE Raise("TypeError", "orderby() expected str/tuple/iterable, got " \o x.ty)

walk_orderby_each(items, i, acc) ==
    IF i > Len(items) \/ IsRaise(acc) THEN acc
    ELSE walk_orderby_each(items, i + 1, walk_orderby(items[i], acc))

flatten_orderby(items) ==
    LET rebuilt(acc) ==
            IF IsRaise(acc) THEN acc
            ELSE Return([i \in 1..Len(acc.seq) |->
                            OrderByItem(acc.seq[i], acc.map[acc.seq[i]])])
    IN  rebuilt(walk_orderby_each(items, 1, OrderAcc(<<>>, <<>>)))

-----------------------------------------------------------------------------
(* ast.py: the expression nodes and their constructors.                    *)

ComparisonKinds == {"Eq", "Ne", "Gt", "Ge", "Lt", "Le"}
StringPredicateKinds == {"Contains", "StartsWith", "EndsWith"}
\* the subclasses of _CoercingBinary
CoercingBinaryKinds == ComparisonKinds \cup StringPredicateKinds
ExprKinds == {"Prop", "Literal", "And", "Or", "Not", "In_"} \cup CoercingBinaryKinds

\* isinstance(x, Expr)
IsExpr(x) == x.ty \in ExprKinds

Prop(name) == [ty |-> "Prop", name |-> name]
Literal(value) == [ty |-> "Literal", value |-> value]

\* string => Prop, everything else => Literal (unless already Expr)
coerce_left_default(x) ==
    IF IsExpr(x) THEN x
    ELSE IF x.ty = "str" THEN Prop(x.s)
    ELSE Literal(x)

\* everything => Literal (unless already Expr)
coerce_right_default(x) ==
    IF IsExpr(x) THEN x ELSE Literal(x)

\* _CoercingBinary.__init__ for the subclass kind (Eq, Ne, ..., EndsWith)
CoercingBinary(kind, left, right) ==
    [ty |-> kind,
     left |-> coerce_left_default(left),
     right |-> coerce_right_default(right)]

Eq(left, right) == CoercingBinary("Eq", left, right)

\* the loop of And.__init__ / Or.__init__ over the flattened terms:
\* a term of the same class contributes its terms, any other term itself
RECURSIVE splice_terms(_, _, _, _)
splice_terms(kind, ts, i, flat) ==
    IF i > Len(ts) THEN flat
    ELSE splice_terms(kind, ts, i + 1,
                      IF ts[i].ty = kind THEN flat \o ts[i].terms
                      ELSE Append(flat, ts[i]))

\* And(*terms) as a variant that keeps a nested And as one term
And_keep_nested(terms) ==
    LET f == flatten_exprs(terms) IN
    IF IsRaise(f) THEN f ELSE [ty |-> "And", terms |-> f.val]

\* And(*terms): the node, or the TypeError of flatten_exprs
And(terms) ==
    LET f == flatten_exprs(terms) IN
    IF IsRaise(f) THEN f
    ELSE [ty |-> "And", terms |-> splice_terms("And", f.val, 1, <<>>)]

\* Or(*terms)
Or(terms) ==
    LET f == flatten_exprs(terms) IN
    IF IsRaise(f) THEN f
    ELSE [ty |-> "Or", terms |-> splice_terms("Or", f.val, 1, <<>>)]

Not(expr) == [ty |-> "Not", expr |-> expr]

\* In_(left, *options); a single list or tuple is taken as the options
In_(left, options) ==
    LET raw == IF Len(options) = 1 /\ IsListOrTuple(options[1])
               THEN options[1].items ELSE options
    IN  [ty |-> "In_",
         left |-> coerce_left_default(left),
         options |-> [i \in 1..Len(raw) |-> coerce_right_default(raw[i])]]

\* x == y for the values a Literal holds (True == 1 in Python)
value_eq(x, y) ==
    LET number(v) == IF v.ty = "bool" THEN (IF v.b THEN 1 ELSE 0) ELSE v.n
    IN  CASE x.ty \in {"int", "bool"} ->
                y.ty \in {"int", "bool"} /\ number(x) = number(y)
          [] OTHER -> x = y

\* bool(a == b) for two nodes.  Prop.__eq__ builds an Eq node, and a node is
\* true; every other class has the __eq__ its dataclass generates, which
\* compares the fields in order when both nodes are of the same class and
\* otherwise leaves the answer to the __eq__ of the other node.
RECURSIVE __eq__(_, _), tuple_eq(_, _)
__eq__(a, b) ==
    IF a.ty = "Prop" THEN TRUE
    ELSE IF a.ty # b.ty THEN b.ty = "Prop"
    ELSE CASE a.ty = "Literal" -> value_eq(a.value, b.value)
           [] a.ty \in {"And", "Or"} -> tuple_eq(a.terms, b.terms)
           [] a.ty = "Not" -> __eq__(a.expr, b.expr)
           [] a.ty = "In_" -> __eq__(a.left, b.left) /\ tuple_eq(a.options, b.options)
           [] OTHER -> __eq__(a.left, b.left) /\ __eq__(a.right, b.right)

\* tuple == tuple: the same length and equal elements
tuple_eq(xs, ys) ==
    Len(xs) = Len(ys) /\ \A i \in DOMAIN xs : __eq__(xs[i], ys[i])

-----------------------------------------------------------------------------
(* compiler.py: the wire compiler.                                         *)

\* the module flag use_in_operator (default: OR expansion)
use_in_operator == FALSE

\* str(value)
str(value) ==
    CASE value.ty = "str" -> value.s
      [] value.ty = "int" -> ToString(value.n)
      [] value.ty = "bool" -> IF value.b THEN "True" ELSE "False"
      [] OTHER -> "None"

compile_literal(value) ==
    CASE value.ty = "none" -> "null"
      [] value.ty = "bool" -> IF value.b THEN "true" ELSE "false"
      [] value.ty = "int" -> ToString(value.n)
      [] value.ty = "str" -> "'" \o escape_quotes(value.s) \o "'"
      [] OTHER -> "'" \o escape_quotes(str(value)) \o "'"

\* the infix operator of a comparison node
ComparisonWord(kind) ==
    CASE kind = "Eq" -> "eq" [] kind = "Ne" -> "ne" [] kind = "Gt" -> "gt"
      [] kind = "Ge" -> "ge" [] kind = "Lt" -> "lt" [] kind = "Le" -> "le"

\* the function name of a string predicate node
PredicateWord(kind) ==
    CASE kind = "Contains" -> "contains"
      [] kind = "StartsWith" -> "startswith"
      [] kind = "EndsWith" -> "endswith"

\* every node of the tree is one compile_expr knows (else TypeError)
RECURSIVE Compilable(_)
Compilable(expr) ==
    CASE expr.ty \in {"Prop", "Literal"} -> TRUE
      [] expr.ty \in {"And", "Or"} ->
            \A i \in DOMAIN expr.terms : Compilable(expr.terms[i])
      [] expr.ty = "Not" -> Compilable(expr.expr)
      [] expr.ty \in CoercingBinaryKinds ->
            Compilable(expr.left) /\ Compilable(expr.right)
      [] expr.ty = "In_" ->
            /\ Compilable(expr.left)
            /\ \A i \in DOMAIN expr.options : Compilable(expr.options[i])
      [] OTHER -> FALSE

RECURSIVE compile_expr(_)

\* compile_in as a variant that looks at the rendering mode before it looks
\* for an empty option list
compile_in_mode_first(node, in_operator) ==
    IF in_operator
    THEN "(" \o compile_expr(node.left) \o " in ("
             \o join(",", [i \in DOMAIN node.options |->
                              compile_expr(node.options[i])]) \o "))"
    ELSE IF Len(node.options) = 0 THEN "(false)"
    ELSE "(" \o join(" or ", [i \in DOMAIN node.options |->
                "(" \o compile_expr(node.left) \o " eq "
                    \o compile_expr(node.options[i]) \o ")"]) \o ")"

\* compile_in(node), with the module flag use_in_operator as in_operator
compile_in(node, in_operator) ==
    IF Len(node.options) = 0 THEN "(false)"
    ELSE IF in_operator
    THEN "(" \o compile_expr(node.left) \o " in ("
             \o join(",", [i \in DOMAIN node.options |->
                              compile_expr(node.options[i])]) \o "))"
    ELSE "(" \o join(" or ", [i \in DOMAIN node.options |->
                "(" \o compile_expr(node.left) \o " eq "
                    \o compile_expr(node.options[i]) \o ")"]) \o ")"

compile_expr(expr) ==
    CASE expr.ty = "Prop" -> expr.name
      [] expr.ty = "Literal" -> compile_literal(expr.value)
      [] expr.ty = "And" ->
            "(" \o join(" and ", [i \in DOMAIN expr.terms |->
                                     compile_expr(expr.terms[i])]) \o ")"
      [] expr.ty = "Or" ->
            "(" \o join(" or ", [i \in DOMAIN expr.terms |->
                                    compile_expr(expr.terms[i])]) \o ")"
      [] expr.ty = "Not" -> "(not " \o compile_expr(expr.expr) \o ")"
      [] expr.ty \in ComparisonKinds ->
            "(" \o compile_expr(expr.left) \o " " \o ComparisonWord(expr.ty)
                \o " " \o compile_expr(expr.right) \o ")"
      [] expr.ty \in StringPredicateKinds ->
            PredicateWord(expr.ty) \o "(" \o compile_expr(expr.left) \o ","
                \o compile_expr(expr.right) \o ")"
      [] expr.ty = "In_" -> compile_in(expr, use_in_operator)

compile_orderby(items) ==
    join(",", [i \in DOMAIN items |->
                  items[i].field \o (IF items[i].desc THEN " desc" ELSE " asc")])

-----------------------------------------------------------------------------
(* utilities.py: GUID recognition and case-insensitive lookup.  A dict is  *)
(* a sequence of [k, v] pairs in insertion order.                          *)

HexChars == "0123456789abcdefABCDEF"

\* str.replace(old, new)
RECURSIVE replace(_, _, _)
replace(s, old, new) ==
    IF Len(s) < Len(old) THEN s
    ELSE IF SubSeq(s, 1, Len(old)) = old
         THEN new \o replace(SubSeq(s, Len(old) + 1, Len(s)), old, new)
         ELSE Ch(s, 1) \o replace(SubSeq(s, 2, Len(s)), old, new)

\* str.strip('{}')
RECURSIVE strip_braces(_)
strip_braces(s) ==
    IF s = "" THEN s
    ELSE IF Ch(s, 1) \in {"{", "}"} THEN strip_braces(SubSeq(s, 2, Len(s)))
    ELSE IF Ch(s, Len(s)) \in {"{", "}"}
         THEN strip_braces(SubSeq(s, 1, Len(s) - 1))
         ELSE s

\* the 32 digits uuid.UUID(str) extracts before it parses them
uuid_hex(s) ==
    replace(strip_braces(replace(replace(s, "urn:", ""), "uuid:", "")), "-", "")

_is_guid(value) ==
    LET hex == uuid_hex(value)
    IN  /\ Len(hex) = 32
        /\ \A i \in 1..32 : \E j \in 1..Len(HexChars) : Ch(hex, i) = Ch(HexChars, j)

_normalize_guid(value) ==
    LET hex == lower(uuid_hex(value))
    IN  SubSeq(hex, 1, 8) \o "-" \o SubSeq(hex, 9, 12) \o "-"
            \o SubSeq(hex, 13, 16) \o "-" \o SubSeq(hex, 17, 20) \o "-"
            \o SubSeq(hex, 21, 32)

\* dict.get(key): the value, or nothing
dict_get(d, key) ==
    IF \E i \in DOMAIN d : d[i].k = key
    THEN Some(d[CHOOSE i \in DOMAIN d : d[i].k = key].v)
    ELSE None

\* the first key (in insertion order) equal to target ignoring case
_find_case_insensitive(target, items) ==
    LET hits == {i \in DOMAIN items : lower(items[i].k) = lower(target)}
    IN  IF hits = {} THEN [item |-> None, name |-> None]
        ELSE LET i == CHOOSE h \in hits : \A g \in hits : h <= g
             IN  [item |-> Some(items[i].v), name |-> Some(items[i].k)]

-----------------------------------------------------------------------------
(* metadata.py: the parsed schema and its lookups.  The schema below is    *)
(* the one every query of the model is validated against.                  *)

Attribute(api_name, type, full_type, type_element) ==
    [api_name |-> api_name, type |-> type, full_type |-> full_type,
     is_collection |-> FALSE, type_element |-> type_element]

NavigationProperty(to_entity_type) == [to_entity_type |-> to_entity_type]

Entity(primary_key, entity_set_name, attributes, navigation_properties) ==
    [primary_key |-> primary_key, entity_set_name |-> entity_set_name,
     attributes |-> attributes, navigation_properties |-> navigation_properties]

ContactEntity ==
    Entity(Some("contactid"), Some("contacts"),
           << [k |-> "fullname",
               v |-> Attribute("fullname", "String", "Edm.String", Some("edm"))],
              [k |-> "contactid",
               v |-> Attribute("contactid", "Guid", "Edm.Guid", Some("edm"))],
              [k |-> "parentcustomerid",
               v |-> Attribute("_parentcustomerid_value", "Guid", "Edm.Guid",
                               Some("edm"))],
              [k |-> "statuscode",
               v |-> Attribute("statuscode", "Status", "Ns.Status",
                               Some("enum_type"))],
              [k |-> "createdon",
               v |-> Attribute("createdon", "DateTimeOffset",
                               "Edm.DateTimeOffset", Some("edm"))],
              [k |-> "numberofchildren",
               v |-> Attribute("numberofchildren", "Int32", "Edm.Int32",
                               Some("edm"))],
              [k |-> "donotemail",
               v |-> Attribute("donotemail", "Boolean", "Edm.Boolean",
                               Some("edm"))],
              [k |-> "creditlimit",
               v |-> Attribute("creditlimit", "Decimal", "Edm.Decimal",
                               Some("edm"))] >>,
           << [k |-> "parentcustomerid_account",
               v |-> NavigationProperty("account")],
              [k |-> "contact_notes",
               v |-> NavigationProperty("note")] >>)

AccountEntity ==
    Entity(Some("accountid"), Some("accounts"),
           << [k |-> "name",
               v |-> Attribute("name", "String", "Edm.String", Some("edm"))],
              [k |-> "accountid",
               v |-> Attribute("accountid", "Guid", "Edm.Guid", Some("edm"))] >>,
           << [k |-> "primarycontactid",
               v |-> NavigationProperty("contact")] >>)

\* an entity type that no entity set of the container exposes
NoteEntity ==
    Entity(Some("noteid"), None,
           << [k |-> "noteid",
               v |-> Attribute("noteid", "Guid", "Edm.Guid", Some("edm"))] >>,
           << >>)

StatusEnum ==
    [members |-> << [k |-> "Active", v |-> "1"], [k |-> "Inactive", v |-> "2"] >>,
     enum_is_flags |-> FALSE]

\* d[key] = value: an existing key keeps its place and takes the new value
dict_set(d, key, value) ==
    IF \E i \in DOMAIN d : d[i].k = key
    THEN [i \in DOMAIN d |-> IF d[i].k = key THEN [k |-> key, v |-> value] ELSE d[i]]
    ELSE Append(d, [k |-> key, v |-> value])

\* the loop binding each entity's entity-set name to the entity's name
RECURSIVE bind_entity_sets(_, _, _)
bind_entity_sets(entities, i, entity_sets) ==
    IF i > Len(entities) THEN entity_sets
    ELSE bind_entity_sets(entities, i + 1,
             IF entities[i].v.entity_set_name # None
                /\ entities[i].v.entity_set_name[1] # ""
             THEN dict_set(entity_sets, entities[i].v.entity_set_name[1],
                           entities[i].k)
             ELSE entity_sets)

\* service_metadata_from_parsed_edmx: entity_sets come from the entities
ServiceMetadata(namespace, alias, entities, enums) ==
    [schema_namespace |-> namespace,
     schema_alias |-> alias,
     entity_sets |-> bind_entity_sets(entities, 1, <<>>),
     entities |-> entities,
     enums |-> enums]

Schema ==
    ServiceMetadata("Ns", "mscrm",
                    << [k |-> "contact", v |-> ContactEntity],
                       [k |-> "account", v |-> AccountEntity],
                       [k |-> "note", v |-> NoteEntity] >>,
                    << [k |-> "Status", v |-> StatusEnum] >>)

\* get_entity(name): [entity, name], both empty when nothing matches
get_entity(md, name) ==
    LET direct == dict_get(md.entities, name)
        by_set == dict_get(md.entity_sets, name)
        ci_set == _find_case_insensitive(name, md.entity_sets)
        ci_ent == _find_case_insensitive(name, md.entities)
    IN  IF direct # None THEN [entity |-> direct, name |-> Some(name)]
        ELSE IF by_set # None /\ dict_get(md.entities, by_set[1]) # None
        THEN [entity |-> dict_get(md.entities, by_set[1]), name |-> by_set]
        ELSE IF ci_set.item # None /\ dict_get(md.entities, ci_set.item[1]) # None
        THEN [entity |-> dict_get(md.entities, ci_set.item[1]),
              name |-> ci_set.item]
        ELSE [entity |-> ci_ent.item, name |-> ci_ent.name]

\* _get_entity_prop on an entity already looked up (nothing for no entity)
_get_entity_prop(prop_type, prop_name, entity) ==
    IF entity = None THEN [item |-> None, name |-> None]
    ELSE LET props == IF prop_type = "attributes" THEN entity[1].attributes
                      ELSE entity[1].navigation_properties
         IN  IF dict_get(props, prop_name) # None
             THEN [item |-> dict_get(props, prop_name), name |-> Some(prop_name)]
             ELSE _find_case_insensitive(prop_name, props)

get_attribute(md, attribute_name, entity) ==
    _get_entity_prop("attributes", attribute_name, entity)

get_navigation_property(md, navigation_property_name, entity) ==
    _get_entity_prop("navigation_properties", navigation_property_name, entity)

\* get_enum(name)
get_enum(md, name) ==
    IF dict_get(md.enums, name) # None
    THEN [item |-> dict_get(md.enums, name), name |-> Some(name)]
    ELSE _find_case_insensitive(name, md.enums)

\* get_enum_info(enum_name, enum_variable = value): the member's record, or
\* nothing.  value is a Python value other than None.
get_enum_info(md, enum_name, value) ==
    LET enum == get_enum(md, enum_name)
    IN  IF enum.item = None THEN None
        ELSE
        LET members == enum.item[1].members
            by_name ==
                IF value.ty = "str" /\ dict_get(members, value.s) # None
                THEN Some(value.s)
                ELSE _find_case_insensitive(str(value), members).name
            exact == {i \in DOMAIN members :
                         value.ty = "str" /\ members[i].v = value.s}
            as_str == {i \in DOMAIN members : members[i].v = str(value)}
            first(S) == CHOOSE i \in S : \A j \in S : i <= j
            enum_member_name ==
                IF by_name # None THEN by_name
                ELSE IF exact # {} THEN Some(members[first(exact)].k)
                ELSE IF as_str # {} THEN Some(members[first(as_str)].k)
                ELSE None
        IN  IF enum_member_name # None
               /\ dict_get(members, enum_member_name[1]) # None
               /\ dict_get(members, enum_member_name[1])[1] # ""
            THEN Some([enum_path |-> md.schema_namespace \o "." \o enum.name[1],
                       enum_member |-> enum_member_name[1],
                       enum_value |-> dict_get(members, enum_member_name[1])[1],
                       enum_is_flags |-> enum.item[1].enum_is_flags])
            ELSE None

-----------------------------------------------------------------------------
(* metadata.py: the light validation of cached (JSON or pre-parsed)        *)
(* metadata.  A JSON object is a dict: its items in order, keys unique.    *)

PyDict(items) == [ty |-> "dict", items |-> items]

_REQUIRED_SCHEMA_KEYS == {"namespace", "alias", "entities", "enums", "complex_types"}

\* sorted(missing), as Python prints the list
sorted_missing(missing) ==
    LET names == SelectSeq(<<"alias", "complex_types", "entities", "enums",
                             "namespace">>, LAMBDA k : k \in missing)
    IN  "[" \o join(", ", [i \in DOMAIN names |-> "'" \o names[i] \o "'"]) \o "]"

EdmxSourceError(msg) == Raise("EdmxSourceError", msg)

\* the body of the loop of _validate_cached_metadata for the schema at
\* position i (index i - 1): the error raised, or nothing
validate_cached_schema(schema, i) ==
    LET at == "Cached metadata schema at index " \o str(PyInt(i - 1))
        keys == {schema.items[j].k : j \in DOMAIN schema.items}
        missing == _REQUIRED_SCHEMA_KEYS \ keys
        get(key) == IF dict_get(schema.items, key) = None THEN PyNone
                    ELSE dict_get(schema.items, key)[1]
        objects == <<"entities", "enums", "entity_sets", "complex_types">>
        not_dict == {j \in DOMAIN objects : get(objects[j]).ty # "dict"}
    IN  IF missing # {}
        THEN Some(EdmxSourceError(at \o " is missing keys: " \o sorted_missing(missing)))
        ELSE IF not_dict # {}
        THEN Some(EdmxSourceError(
                 at \o ": '"
                    \o objects[CHOOSE j \in not_dict : \A h \in not_dict : j <= h]
                    \o "' must be an object/dict."))
        ELSE IF get("namespace").ty \notin {"none", "str"}
        THEN Some(EdmxSourceError(at \o ": 'namespace' must be a string or null."))
        ELSE IF get("alias").ty \notin {"none", "str"}
        THEN Some(EdmxSourceError(at \o ": 'alias' must be a string or null."))
        ELSE None

RECURSIVE validate_cached_schemas(_, _)
validate_cached_schemas(schemas, i) ==
    IF i > Len(schemas) THEN Return(PyNone)
    ELSE IF validate_cached_schema(schemas[i], i) # None
    THEN validate_cached_schema(schemas[i], i)[1]
    ELSE validate_cached_schemas(schemas, i + 1)

\* _validate_cached_metadata(data): returns None or raises EdmxSourceError
_validate_cached_metadata(data) ==
    IF data.ty # "list" \/ \E i \in DOMAIN data.items : data.items[i].ty # "dict"
    THEN EdmxSourceError(
             "Cached metadata JSON must be a list of objects (or a single object).")
    ELSE validate_cached_schemas(data.items, 1)

-----------------------------------------------------------------------------
(* types.py and targets.py: query parts and the targets carrying the       *)
(* capability set.                                                         *)

\* QueryPart members that name a facet, and the two markers
QueryPart == {"SELECT", "FILTER", "ORDERBY", "SKIP", "TOP", "COUNT", "EXPAND"}
AnyPart == "__ANY__"
NoPart == "__NONE__"

\* FromTarget.create as a variant that narrows the facets for a focus only
FromTarget_create_focus_only(entity_set, id, focus) ==
    IF focus # None /\ id = None
    THEN Raise("ValueError", "Use of Focus required an entity id or name.")
    ELSE Return(
        [cls |-> "FromTarget",
         validate_requires_metadata |-> TRUE,
         allowed_parts |-> IF focus # None THEN {"SELECT", "EXPAND"} ELSE {AnyPart},
         part_validation_error |->
            IF focus # None
            THEN Some("FROM only allows SELECT and EXPAND when using ID or FOCUS.")
            ELSE Some(""),
         entity_set |-> entity_set,
         id |-> id,
         focus |-> focus,
         focus_type |-> None,
         focus_entity |-> None])

FromTarget_create(entity_set, id, focus) ==
    IF focus # None /\ id = None
    THEN Raise("ValueError", "Use of Focus required an entity id or name.")
    ELSE Return(
        [cls |-> "FromTarget",
         validate_requires_metadata |-> TRUE,
         allowed_parts |-> IF focus # None \/ id # None
                           THEN {"SELECT", "EXPAND"} ELSE {AnyPart},
         part_validation_error |->
            IF focus # None \/ id # None
            THEN Some("FROM only allows SELECT and EXPAND when using ID or FOCUS.")
            ELSE Some(""),
         entity_set |-> entity_set,
         id |-> id,
         focus |-> focus,
         focus_type |-> None,
         focus_entity |-> None])

ExpandTarget_create(navigation_property) ==
    [cls |-> "ExpandTarget",
     validate_requires_metadata |-> TRUE,
     allowed_parts |-> {"SELECT", "FILTER", "EXPAND"},
     part_validation_error |-> None,
     navigation_property |-> navigation_property,
     entity_set |-> None]

EntityDefinitionsTarget_create ==
    [cls |-> "EntityDefinitionsTarget",
     validate_requires_metadata |-> FALSE,
     allowed_parts |-> {"SELECT"},
     part_validation_error |-> None,
     logical_name |-> None,
     id |-> None]

EdmxTarget_create ==
    [cls |-> "EdmxTarget",
     validate_requires_metadata |-> FALSE,
     allowed_parts |-> {NoPart},
     part_validation_error |-> None]

WhoAmITarget_create ==
    [cls |-> "WhoAmITarget",
     validate_requires_metadata |-> FALSE,
     allowed_parts |-> {NoPart},
     part_validation_error |-> None]

to_path(t) ==
    CASE t.cls = "FromTarget" ->
            IF t.id # None /\ t.id[1] # ""
            THEN (IF _is_guid(t.id[1])
                  THEN "/" \o t.entity_set \o "(" \o _normalize_guid(t.id[1]) \o ")"
                  ELSE "/" \o t.entity_set \o "(LogicalName='" \o t.id[1] \o "')")
                 \o (IF t.focus # None
                     THEN "/" \o t.focus[1]
                              \o (IF t.focus_type # None
                                  THEN "/" \o t.focus_type[1] ELSE "")
                     ELSE "")
            ELSE "/" \o t.entity_set
      [] t.cls = "ExpandTarget" -> t.navigation_property
      [] t.cls = "EntityDefinitionsTarget" -> "/EntityDefinitions"
      [] t.cls = "EdmxTarget" -> "/$metadata"
      [] t.cls = "WhoAmITarget" -> "/WhoAmI"

\* the target_entity property: a name, nothing, or the RuntimeError of the
\* fixed endpoints
target_entity(t) ==
    CASE t.cls = "FromTarget" ->
            Return(IF t.focus_entity # None THEN t.focus_entity
                   ELSE Some(t.entity_set))
      [] t.cls = "ExpandTarget" -> Return(t.entity_set)
      [] OTHER ->
            Raise("RuntimeError",
                  "This target has no target_entity. It should never have been called.")

-----------------------------------------------------------------------------
(* query.py: one node of the query tree (QueryBase) and its fluent calls.  *)
(* A call yields the node it leaves behind and what it returned or raised. *)

QueryBase(target) ==
    [target |-> target, select |-> <<>>, filter |-> None, count |-> None,
     orderby |-> <<>>, skip |-> None, top |-> None, expand |-> <<>>]

Called(q, r) == [q |-> q, r |-> r]
Self == Return([ty |-> "self"])

\* list.append for each element not yet in the list
RECURSIVE append_new(_, _, _)
append_new(list, items, i) ==
    IF i > Len(items) THEN list
    ELSE append_new(IF items[i] \in Range(list) THEN list
                    ELSE Append(list, items[i]), items, i + 1)

select_(q, fields) ==
    LET normalized == flatten_fields(fields)
    IN  IF IsRaise(normalized) THEN Called(q, normalized)
        ELSE Called([q EXCEPT !.select = append_new(@, normalized.val, 1)], Self)

where_(q, items) ==
    LET exprs == flatten_exprs(items)
    IN  IF IsRaise(exprs) THEN Called(q, exprs)
        ELSE IF exprs.val = <<>> THEN Called(q, Self)
        ELSE
        LET incoming == IF Len(exprs.val) > 1 THEN And(exprs.val)
                        ELSE exprs.val[1]
            combined == IF IsRaise(incoming) \/ q.filter = None THEN incoming
                        ELSE And(<<q.filter[1], incoming>>)
        IN  IF IsRaise(combined) THEN Called(q, combined)
            ELSE Called([q EXCEPT !.filter = Some(combined)], Self)

or_where_(q, items) ==
    LET exprs == flatten_exprs(items)
    IN  IF IsRaise(exprs) THEN Called(q, exprs)
        ELSE IF exprs.val = <<>> THEN Called(q, Self)
        ELSE
        LET incoming == IF Len(exprs.val) > 1 THEN Or(exprs.val)
                        ELSE exprs.val[1]
            combined == IF IsRaise(incoming) \/ q.filter = None THEN incoming
                        ELSE Or(<<q.filter[1], incoming>>)
        IN  IF IsRaise(combined) THEN Called(q, combined)
            ELSE Called([q EXCEPT !.filter = Some(combined)], Self)

count_(q, enabled) == Called([q EXCEPT !.count = Some(enabled)], Self)

\* the loop of orderby_: an item is appended unless the same field with the
\* same direction is already there
RECURSIVE append_unseen(_, _, _)
append_unseen(list, items, i) ==
    IF i > Len(items) THEN list
    ELSE append_unseen(
            IF \E j \in DOMAIN list : /\ list[j].field = items[i].field
                                      /\ list[j].desc = items[i].desc
            THEN list ELSE Append(list, items[i]),
            items, i + 1)

orderby_(q, items) ==
    LET appended(normalized) ==
            IF IsRaise(normalized) THEN Called(q, normalized)
            ELSE Called([q EXCEPT !.orderby = append_unseen(@, normalized.val, 1)],
                        Self)
    IN  appended(flatten_orderby(items))

\* isinstance(n, int): bool is an int in Python
IsInt(n) == n.ty \in {"int", "bool"}
IntValue(n) == IF n.ty = "bool" THEN (IF n.b THEN 1 ELSE 0) ELSE n.n

skip_(q, n) ==
    IF ~IsInt(n) \/ IntValue(n) < 0
    THEN Called(q, Raise("ValueError", "$skip must be a non-negative integer"))
    ELSE Called([q EXCEPT !.skip = Some(n)], Self)

top_(q, n) ==
    IF ~IsInt(n) \/ IntValue(n) < 0
    THEN Called(q, Raise("ValueError", "$top must be a non-negative integer"))
    ELSE Called([q EXCEPT !.top = Some(n)], Self)

\* expand_: a new ExpandQuery appended to the node's expansions
expand_(q, navigation_property) ==
    Called([q EXCEPT !.expand =
                Append(@, QueryBase(Some(ExpandTarget_create(navigation_property))))],
           Self)

_present_parts(q) ==
    (IF q.select # <<>> THEN {"SELECT"} ELSE {})
    \cup (IF q.filter # None THEN {"FILTER"} ELSE {})
    \cup (IF q.orderby # <<>> THEN {"ORDERBY"} ELSE {})
    \cup (IF q.skip # None THEN {"SKIP"} ELSE {})
    \cup (IF q.top # None THEN {"TOP"} ELSE {})
    \cup (IF q.count # None THEN {"COUNT"} ELSE {})
    \cup (IF q.expand # <<>> THEN {"EXPAND"} ELSE {})

\* sorted(p.name for p in parts)
PartNamesSorted == <<"COUNT", "EXPAND", "FILTER", "ORDERBY", "SELECT", "SKIP", "TOP">>
sorted_names(parts) == SelectSeq(PartNamesSorted, LAMBDA n : n \in parts)

\* the suffix both capability messages share
error_suffix(t) ==
    IF t.part_validation_error # None /\ t.part_validation_error[1] # ""
    THEN " " \o t.part_validation_error[1] ELSE ""

\* the gate as a variant that reports only the first facet it meets
_enforce_allowed_parts_first_only(q, t) ==
    IF AnyPart \in t.allowed_parts THEN None
    ELSE IF _present_parts(q) # {} /\ NoPart \in t.allowed_parts
    THEN Some(Raise("ValueError",
                    t.cls \o " does not allow any query parts." \o error_suffix(t)))
    ELSE IF _present_parts(q) \ t.allowed_parts # {}
    THEN Some(Raise("ValueError",
                    t.cls \o " does not allow: "
                        \o sorted_names(_present_parts(q) \ t.allowed_parts)[1]
                        \o "." \o error_suffix(t)))
    ELSE None

\* _enforce_allowed_parts: the ValueError it raises, or nothing
_enforce_allowed_parts(q, t) ==
    IF AnyPart \in t.allowed_parts THEN None
    ELSE IF _present_parts(q) # {} /\ NoPart \in t.allowed_parts
    THEN Some(Raise("ValueError",
                    t.cls \o " does not allow any query parts." \o error_suffix(t)))
    ELSE IF _present_parts(q) \ t.allowed_parts # {}
    THEN Some(Raise("ValueError",
                    t.cls \o " does not allow: "
                        \o join(", ", sorted_names(_present_parts(q) \ t.allowed_parts))
                        \o "." \o error_suffix(t)))
    ELSE None

-----------------------------------------------------------------------------
(* validator.py: validation of one node against the schema.  A validation  *)
(* step yields the node as it leaves it and the exception it raised, if    *)
(* any; what a step changed before raising stays changed.                  *)

Validated(q, exc) == [q |-> q, exc |-> exc]

\* run the next step unless an earlier one raised
Then(v, step(_)) == IF v.exc # None THEN v ELSE step(v.q)

_value_matches_edm(value, edm_type) ==
    IF value.ty = "none" THEN FALSE
    ELSE CASE edm_type = "Edm.String" -> value.ty = "str"
           [] edm_type = "Edm.Boolean" -> value.ty = "bool"
           [] edm_type \in {"Edm.Int32", "Edm.Int16", "Edm.Int64"} -> value.ty = "int"
           [] edm_type \in {"Edm.Decimal", "Edm.Double", "Edm.Single"} ->
                value.ty = "int"
           [] edm_type = "Edm.Guid" -> value.ty = "str" /\ _is_guid(value.s)
           [] OTHER -> TRUE

\* (name, differs): the api name when the attribute declares a different one
get_attribute_api_name(attr, name) ==
    IF attr.api_name # "" /\ name # attr.api_name
    THEN [name |-> attr.api_name, found |-> TRUE]
    ELSE [name |-> name, found |-> FALSE]

NoAttribute(cls, attribute) ==
    Raise("AttributeError",
          "'" \o cls \o "' object has no attribute '" \o attribute \o "'")

\* validate_enum: what it raises (it has no way to return)
validate_enum(expr, prop_is_left, attr_name, attr, md) ==
    LET enum == get_enum(md, attr.type)
        lit_expr == IF prop_is_left THEN expr.right ELSE expr.left
    IN  IF enum.item = None
        THEN Raise("ValidationLookupError",
                   "Unable to find Enumerator by the name of " \o attr.type
                       \o " in the metadata.")
        ELSE IF lit_expr.ty # "Literal" THEN NoAttribute(lit_expr.ty, "value")
        ELSE IF lit_expr.value.ty = "none"
        THEN Raise("ValueError",
                   "Expected only one of the following [enum_variable, enum_member, enum_value] but got 0.")
        ELSE IF get_enum_info(md, enum.name[1], lit_expr.value) # None
        THEN \* Prop("Namespace.Enum'Member'") is built, then expr._rebuild(...)
             NoAttribute(expr.ty, "_rebuild")
        ELSE Raise("ValidationLookupError",
                   "Unable to find Enumerator " \o enum.name[1] \o " member/value "
                       \o str(lit_expr.value) \o " in the metadata.")

\* validate_binary_expr: the exception raised, or nothing
validate_binary_expr(expr, entity_name, md) ==
    LET left == expr.left
        right == expr.right
        prop_is_left == left.ty = "Prop"
        prop_expr == IF prop_is_left THEN left ELSE right
        lit_expr == IF prop_is_left THEN right ELSE left
        invalid == Some(Raise("TypeError", "Binary expression is invalid"))
    IN  IF (left.ty = "Prop" /\ right.ty = "Prop")
           \/ (left.ty = "Literal" /\ right.ty = "Literal")
        THEN Some(Raise("TypeError",
                        "Expected the binary expression to be a prop and a literal"))
        ELSE IF prop_expr.ty # "Prop" THEN Some(NoAttribute(prop_expr.ty, "name"))
        ELSE
        LET found == get_attribute(md, prop_expr.name,
                                   get_entity(md, entity_name).entity)
        IN  IF found.item = None THEN invalid
            ELSE
            LET attr == found.item[1] IN
            IF attr.type_element = Some("enum_type")
            THEN Some(validate_enum(expr, prop_is_left, found.name[1], attr, md))
            ELSE IF attr.type_element = Some("edm")
            THEN IF lit_expr.ty # "Literal"
                 THEN Some(NoAttribute(lit_expr.ty, "value"))
                 ELSE IF get_attribute_api_name(attr, found.name[1]).found
                 THEN \* validate_prop: prop_expr._update_name(...)
                      Some(NoAttribute("Prop", "_update_name"))
                 ELSE IF attr.type = "Guid"
                 THEN Some(NoAttribute(expr.ty, "_rebuild"))
                 ELSE IF _value_matches_edm(lit_expr.value, attr.full_type)
                 THEN None
                 ELSE invalid
            ELSE invalid

\* validate_expr: the exception raised, or nothing
RECURSIVE validate_expr(_, _, _), validate_terms(_, _, _, _)

\* validate_expr as a variant that looks a naked Prop up before rejecting it
validate_expr_lookup_first(expr, entity_name, md) ==
    CASE expr.ty = "Prop" ->
            IF get_attribute(md, expr.name, get_entity(md, entity_name).entity).item
                   = None
            THEN Some(Raise("ValidationLookupError",
                            "Unable to find property " \o expr.name \o " on entity "
                                \o entity_name \o "."))
            ELSE Some(Raise("ValidationError", "Naked Prop expression was found."))
      [] expr.ty = "Literal" ->
            Some(Raise("ValidationError", "Naked Literal expression was found."))
      [] expr.ty \in {"And", "Or"} -> validate_terms(expr.terms, 1, entity_name, md)
      [] expr.ty \in CoercingBinaryKinds -> validate_binary_expr(expr, entity_name, md)
      [] expr.ty = "Not" -> Some(NoAttribute("Not", "inner_expr"))
      [] OTHER -> Some(Raise("TypeError", "Unknown expression node"))

validate_expr(expr, entity_name, md) ==
    CASE expr.ty = "Prop" ->
            Some(Raise("ValidationError", "Naked Prop expression was found."))
      [] expr.ty = "Literal" ->
            Some(Raise("ValidationError", "Naked Literal expression was found."))
      [] expr.ty \in {"And", "Or"} -> validate_terms(expr.terms, 1, entity_name, md)
      [] expr.ty \in CoercingBinaryKinds -> validate_binary_expr(expr, entity_name, md)
      [] expr.ty = "Not" -> Some(NoAttribute("Not", "inner_expr"))
      [] OTHER -> Some(Raise("TypeError", "Unknown expression node"))

validate_terms(terms, i, entity_name, md) ==
    IF i > Len(terms) THEN None
    ELSE LET next(e) ==
                 IF e # None THEN e ELSE validate_terms(terms, i + 1, entity_name, md)
         IN  next(validate_expr(terms[i], entity_name, md))

LookupError(msg) == Some(Raise("ValidationLookupError", msg))

validate_from_target(q, md) ==
    LET t == q.target[1]
        name == target_entity(t).val[1]
        found == get_entity(md, name)
    IN  IF found.entity = None
        THEN Validated(q, LookupError("Unknown entity: '" \o name \o "'"))
        ELSE IF found.entity[1].entity_set_name = None
        THEN Validated(q, LookupError("Unable to find the entity set name for "
                 \o name
                 \o (IF found.name[1] # name THEN " (" \o found.name[1] \o ")" ELSE "")
                 \o "."))
        ELSE
        LET t1 == [t EXCEPT !.entity_set = found.entity[1].entity_set_name[1]]
            q1 == [q EXCEPT !.target = Some(t1)]
        IN  IF t.focus = None THEN Validated(q1, None)
            ELSE
            LET nav == get_navigation_property(md, t.focus[1], found.entity)
            IN  IF nav.item = None
                THEN Validated(q1, LookupError(
                        "Unable to Focus on navigation property " \o t.focus[1]
                        \o " on entity " \o target_entity(t1).val[1]
                        \o (IF target_entity(t1).val[1] # found.name[1]
                            THEN "(" \o found.name[1] \o ")" ELSE "")))
                ELSE
                LET focus == get_entity(md, nav.item[1].to_entity_type)
                IN  IF focus.entity = None
                    THEN Validated(q1, LookupError(
                            "Unable to Focus on navigation property " \o t.focus[1]
                            \o (IF t.focus # nav.name
                                THEN "(" \o nav.name[1] \o ")" ELSE "")
                            \o " because the destination entity ("
                            \o nav.item[1].to_entity_type
                            \o ") couldn't be found in the metadata."))
                    ELSE Validated([q EXCEPT !.target = Some(
                                        [t1 EXCEPT !.focus = nav.name,
                                                   !.focus_entity = focus.name])],
                                   None)

\* validate_expand_target; parent is the target of the node's parent
validate_expand_target(q, md, parent) ==
    LET t == q.target[1]
        parent_entity == target_entity(parent)
    IN  IF IsRaise(parent_entity) THEN Validated(q, Some(parent_entity))
        ELSE IF parent_entity.val = None
        THEN Validated(q, Some(Raise("ValueError",
                "Expected only one of the following [entity, entity_name] but got 0.")))
        ELSE
        LET nav == get_navigation_property(md, t.navigation_property,
                        get_entity(md, parent_entity.val[1]).entity)
        IN  IF nav.item = None
            THEN Validated(q, LookupError("Unable to lookup expand target nav prop"))
            ELSE
            LET to_entity_name == nav.item[1].to_entity_type
                found == get_entity(md, to_entity_name)
            IN  IF found.entity = None
                THEN Validated(q, LookupError("Unknown entity: "
                        \o (IF t.entity_set = None THEN "None"
                            ELSE "'" \o t.entity_set[1] \o "'")))
                ELSE Validated(
                        [q EXCEPT !.target = Some(
                            [t EXCEPT
                               !.entity_set =
                                  IF found.entity[1].entity_set_name # None
                                     /\ found.entity[1].entity_set_name[1] # ""
                                  THEN found.entity[1].entity_set_name
                                  ELSE Some(to_entity_name),
                               !.navigation_property = nav.name[1]])],
                        None)

target_validation(q, md, parent) ==
    IF q.target = None
    THEN Validated(q, Some(Raise("ValidationError",
                                 "Query has no target. Call from_(), whoami_(), etc.")))
    ELSE IF ~q.target[1].validate_requires_metadata THEN Validated(q, None)
    ELSE IF md = None
    THEN Validated(q, Some(Raise("ValidationError",
                q.target[1].cls
                    \o " requires metadata for validation, but metadata is missing.")))
    ELSE IF q.target[1].cls = "FromTarget" THEN validate_from_target(q, md[1])
    ELSE validate_expand_target(q, md[1], parent[1])

\* the loop of select_validation over the selected fields
RECURSIVE select_each(_, _, _, _, _)
select_each(q, md, found, name, i) ==
    IF i > Len(q.select) THEN Validated(q, None)
    ELSE
    LET attribute == get_attribute(md, q.select[i], found.entity)
    IN  IF attribute.item = None
        THEN Validated(q, LookupError(
                "Unable to find attribute " \o q.select[i] \o " on entity "
                \o found.name[1]
                \o (IF found.name[1] # name THEN "(" \o name \o ")" ELSE "")
                \o (IF q.target[1].cls = "FromTarget" /\ q.target[1].focus # None
                    THEN ". You are using Focus, be sure your selected columns are from "
                         \o found.name[1] \o " and not " \o q.target[1].entity_set \o "."
                    ELSE "")))
        ELSE
        LET api == get_attribute_api_name(attribute.item[1], attribute.name[1])
        IN  select_each(IF api.found THEN [q EXCEPT !.select[i] = api.name] ELSE q,
                        md, found, name, i + 1)

\* select_validation as a variant that looks for "*" before "-"
select_validation_star_first(q, md) ==
    LET name == target_entity(q.target[1])
    IN  IF IsRaise(name) THEN Validated(q, Some(name))
        ELSE IF md = None
        THEN Validated(q, Some(NoAttribute("NoneType", "get_entity")))
        ELSE IF name.val = None
        THEN Validated(q, Some(Raise("TypeError",
                                     "cannot unpack non-iterable NoneType object")))
        ELSE
        LET found == get_entity(md[1], name.val[1])
        IN  IF found.entity = None
            THEN Validated(q, LookupError("Unable to find target entity "
                                              \o name.val[1]))
            ELSE IF "*" \in Range(q.select)
            THEN Validated([q EXCEPT !.select = <<>>], None)
            ELSE IF "-" \in Range(q.select)
            THEN Validated([q EXCEPT !.select = <<found.entity[1].primary_key[1]>>],
                           None)
            ELSE select_each(q, md[1], found, name.val[1], 1)

select_validation(q, md) ==
    LET name == target_entity(q.target[1])
    IN  IF IsRaise(name) THEN Validated(q, Some(name))
        ELSE IF md = None
        THEN Validated(q, Some(NoAttribute("NoneType", "get_entity")))
        ELSE IF name.val = None
        THEN Validated(q, Some(Raise("TypeError",
                                     "cannot unpack non-iterable NoneType object")))
        ELSE
        LET found == get_entity(md[1], name.val[1])
        IN  IF found.entity = None
            THEN Validated(q, LookupError("Unable to find target entity "
                                              \o name.val[1]))
            ELSE IF "-" \in Range(q.select)
            THEN \* every entity of the schema declares its key
                 Validated([q EXCEPT !.select = <<found.entity[1].primary_key[1]>>],
                           None)
            ELSE IF "*" \in Range(q.select)
            THEN Validated([q EXCEPT !.select = <<>>], None)
            ELSE select_each(q, md[1], found, name.val[1], 1)

filter_validation(q, md) ==
    IF q.filter # None /\ q.target # None /\ q.target[1].cls = "FromTarget"
    THEN Validated(q, validate_expr(q.filter[1],
                                    target_entity(q.target[1]).val[1], md[1]))
    ELSE Validated(q, None)

\* the loop of orderby_validation; OrderByItem is frozen, so the rename of a
\* field to its declared spelling raises
RECURSIVE orderby_each(_, _, _, _)
orderby_each(q, md, name, i) ==
    IF i > Len(q.orderby) THEN Validated(q, None)
    ELSE
    LET attribute == get_attribute(md, q.orderby[i].field,
                                   get_entity(md, name).entity)
    IN  IF attribute.item = None
        THEN Validated(q, Some(Raise("ValueError",
                "Unknown property in $orderby: '" \o q.orderby[i].field
                    \o "' on '" \o name \o "'")))
        ELSE IF attribute.name[1] # q.orderby[i].field
        THEN Validated(q, Some(Raise("FrozenInstanceError",
                                     "cannot assign to field 'field'")))
        ELSE orderby_each(q, md, name, i + 1)

orderby_validation(q, md) ==
    IF q.orderby = <<>> THEN Validated(q, None)
    ELSE orderby_each(q, md[1], target_entity(q.target[1]).val[1], 1)

skip_validation(q) ==
    IF q.skip # None /\ IntValue(q.skip[1]) < 0
    THEN Validated(q, Some(Raise("ValueError", "$skip must be non-negative")))
    ELSE Validated(q, None)

top_validation(q) ==
    IF q.top # None /\ IntValue(q.top[1]) < 0
    THEN Validated(q, Some(Raise("ValueError", "$top must be non-negative")))
    ELSE Validated(q, None)

\* query_validation: target, select, filter, orderby, skip, top, in this order
query_validation(q, md, parent) ==
    Then(Then(Then(Then(Then(target_validation(q, md, parent),
                             LAMBDA n : select_validation(n, md)),
                        LAMBDA n : filter_validation(n, md)),
                   LAMBDA n : orderby_validation(n, md)),
              LAMBDA n : skip_validation(n)),
         LAMBDA n : top_validation(n))

\* the node, then each expansion below it in order (ExpandQuery.validate_query
\* and the loop of Query.generate); nothing is validated after a raise
RECURSIVE validate_query(_, _, _), validate_expansions(_, _, _)

\* validate_query as a variant that validates the expansions before the node
validate_query_children_first(q, md, parent) ==
    Then(validate_expansions(q, md, 1), LAMBDA n : query_validation(n, md, parent))

validate_query(q, md, parent) ==
    Then(query_validation(q, md, parent), LAMBDA n : validate_expansions(n, md, 1))

validate_expansions(q, md, i) ==
    IF i > Len(q.expand) THEN Validated(q, None)
    ELSE LET next(q1, exc) ==
                 IF exc # None THEN Validated(q1, exc)
                 ELSE validate_expansions(q1, md, i + 1)
             validated(v) == next([q EXCEPT !.expand[i] = v.q], v.exc)
         IN  validated(validate_query(q.expand[i], md, q.target))

-----------------------------------------------------------------------------
(* query.py: compilation of the tree and generate().                       *)

\* the facets of QueryBase._compile, each with its rendering
SelectPart(q) ==
    [present |-> q.select # <<>>, text |-> "$select=" \o join(",", q.select)]
FilterPart(q) ==
    [present |-> q.filter # None,
     text |-> "$filter=" \o (IF q.filter # None THEN compile_expr(q.filter[1])
                             ELSE "")]
CountPart(q) ==
    [present |-> q.count # None,
     text |-> "$count=" \o (IF q.count = Some(TRUE) THEN "true" ELSE "false")]
OrderbyPart(q) ==
    [present |-> q.orderby # <<>>,
     text |-> "$orderby=" \o compile_orderby(q.orderby)]
SkipPart(q) ==
    [present |-> q.skip # None,
     text |-> "$skip=" \o (IF q.skip # None THEN str(q.skip[1]) ELSE "")]
TopPart(q) ==
    [present |-> q.top # None,
     text |-> "$top=" \o (IF q.top # None THEN str(q.top[1]) ELSE "")]

\* the facets with $orderby ahead of $count
CompiledParts_count_last(q) ==
    << SelectPart(q), FilterPart(q), OrderbyPart(q), CountPart(q),
       SkipPart(q), TopPart(q) >>

\* the facets in the order QueryBase._compile appends them
CompiledParts(q) ==
    << SelectPart(q), FilterPart(q), CountPart(q), OrderbyPart(q),
       SkipPart(q), TopPart(q) >>

\* QueryBase._compile: the parts joined by "&", or the TypeError of
\* compile_expr for a node it does not know
QueryBase_compile(q) ==
    IF q.filter # None /\ ~Compilable(q.filter[1])
    THEN Raise("TypeError", "Unknown expression node")
    ELSE LET parts == SelectSeq(CompiledParts(q), LAMBDA p : p.present)
         IN  Return(join("&", [i \in DOMAIN parts |-> parts[i].text]))

\* parts and expansions joined by sep, or whichever there is
combine(parts_str, sep, expansions_str) ==
    IF parts_str # "" /\ expansions_str # ""
    THEN parts_str \o sep \o expansions_str
    ELSE IF parts_str # "" THEN parts_str ELSE expansions_str

\* ExpandQuery._compile: the gate of the expansion, its own parts, then its
\* expansions; the loops of expansions are shared with Query.generate
RECURSIVE ExpandQuery_compile(_), compile_expansions(_, _, _)
ExpandQuery_compile(q) ==
    LET gate == _enforce_allowed_parts(q, q.target[1])
        parts_str == QueryBase_compile(q)
        expansions == compile_expansions(q.expand, 1, <<>>)
    IN  IF gate # None THEN gate[1]
        ELSE IF IsRaise(parts_str) THEN parts_str
        ELSE IF IsRaise(expansions) THEN expansions
        ELSE Return(combine(parts_str.val, ";", join(",", expansions.val)))

compile_expansions(es, i, done) ==
    IF i > Len(es) THEN Return(done)
    ELSE LET exp_str == ExpandQuery_compile(es[i])
         IN  IF IsRaise(exp_str) THEN exp_str
             ELSE compile_expansions(es, i + 1,
                    Append(done, "$expand=" \o es[i].target[1].navigation_property
                                   \o (IF exp_str.val # ""
                                       THEN "(" \o exp_str.val \o ")" ELSE "")))

\* Query.generate(validate): the root as validation leaves it and the text
\* returned or the exception raised
generate(q, md, validate) ==
    LET url(n, parts_str, expansions_str) ==
            LET combined_parts == combine(parts_str, "&", expansions_str)
            IN  Called(n, Return(PyStr(to_path(n.target[1])
                        \o (IF combined_parts # "" THEN "?" \o combined_parts
                            ELSE ""))))
        compiled(n, parts_str, expansions) ==
            IF IsRaise(parts_str) THEN Called(n, parts_str)
            ELSE IF IsRaise(expansions) THEN Called(n, expansions)
            ELSE url(n, parts_str.val, join(",", expansions.val))
        validated(v) ==
            IF v.exc # None THEN Called(v.q, v.exc[1])
            ELSE compiled(v.q, QueryBase_compile(v.q),
                          compile_expansions(v.q.expand, 1, <<>>))
        gated(gate) ==
            IF gate # None THEN Called(q, gate[1])
            ELSE validated(IF validate THEN validate_query(q, md, None)
                           ELSE Validated(q, None))
    IN  IF q.target = None THEN Called(q, NoAttribute("NoneType", "allowed_parts"))
        ELSE gated(_enforce_allowed_parts(q, q.target[1]))

-----------------------------------------------------------------------------
(* The query under construction: metadata is the schema the Query holds    *)
(* (by name), root the tree of the Query and its expansions, ret what the  *)
(* last call returned or raised, ncalls the number of fluent calls so far. *)

\* the schema a Query holds, if any
Metadata(m) == IF m = None THEN None ELSE Some(Schema)

\* a node is addressed by the positions of the expansions leading to it
RECURSIVE Paths(_)
Paths(q) ==
    {<<>>} \cup UNION {{<<i>> \o p : p \in Paths(q.expand[i])} : i \in DOMAIN q.expand}

RECURSIVE NodeAt(_, _)
NodeAt(q, path) ==
    IF path = <<>> THEN q ELSE NodeAt(q.expand[Head(path)], Tail(path))

RECURSIVE Replace(_, _, _)
Replace(q, path, n) ==
    IF path = <<>> THEN n
    ELSE [q EXCEPT !.expand[Head(path)] = Replace(@, Tail(path), n)]

GuidText == "3FA85F64-5717-4562-B3FC-2C963F66AFA6"

FromArgs ==
    { [entity_set |-> "contacts", id |-> None, focus |-> None],
      [entity_set |-> "Contact", id |-> Some(GuidText), focus |-> None],
      [entity_set |-> "contacts", id |-> Some(GuidText),
       focus |-> Some("parentcustomerid_account")],
      [entity_set |-> "contacts", id |-> None,
       focus |-> Some("parentcustomerid_account")] }

SelectArgs ==
    { <<PyStr("fullname")>>, <<PyStr("name")>>, <<PyStr("-")>>, <<PyStr("*")>> }

WhereArgs ==
    { <<Eq(PyStr("fullname"), PyStr("Jane"))>>,
      <<Eq(PyStr("statuscode"), PyStr("Active"))>>,
      <<Eq(PyStr("statuscode"), PyStr("Bogus"))>> }

OrWhereArgs == { <<Eq(PyStr("fullname"), PyStr("O'Hara"))>> }

OrderbyArgs ==
    { <<PyStr("fullname desc")>>, <<PyStr("fullname")>>, <<PyStr("contactid")>> }

SkipArgs == { PyInt(0) }
TopArgs == { PyInt(5) }
ExpandArgs == { "parentcustomerid_account" }

Init ==
    /\ metadata \in {None, Some("Ns")}
    /\ root = QueryBase(None)
    /\ ret = Self
    /\ ncalls = 0
    /\ fn = "" /\ arg = <<>> /\ out = PyNone /\ out2 = PyNone

\* a fluent call on the node at path leaves c.q there and returns c.r
Fluent(path, c) ==
    /\ ncalls < MaxCalls
    /\ root' = Replace(root, path, c.q)
    /\ ret' = c.r
    /\ ncalls' = ncalls + 1
    /\ UNCHANGED <<metadata, fn, arg, out, out2>>

\* a call that replaces the target of the Query
Retarget(t) ==
    /\ root' = IF IsRaise(t) THEN root ELSE [root EXCEPT !.target = Some(t.val)]
    /\ ret' = IF IsRaise(t) THEN t ELSE Self
    /\ ncalls' = ncalls + 1
    /\ UNCHANGED <<metadata, fn, arg, out, out2>>

From ==
    \E a \in FromArgs :
        /\ ncalls < MaxCalls
        /\ Retarget(FromTarget_create(a.entity_set, a.id, a.focus))

Edmx ==
    /\ ncalls < MaxCalls
    /\ Retarget(Return(EdmxTarget_create))

WhoAmI ==
    /\ ncalls < MaxCalls
    /\ Retarget(Return(WhoAmITarget_create))

EntityDefinitions ==
    /\ ncalls < MaxCalls
    /\ Retarget(Return(EntityDefinitionsTarget_create))

Using ==
    /\ ncalls < MaxCalls
    /\ metadata' = Some("Ns")
    /\ ret' = Self
    /\ ncalls' = ncalls + 1
    /\ UNCHANGED <<root, fn, arg, out, out2>>

Select ==
    \E path \in Paths(root), a \in SelectArgs :
        Fluent(path, select_(NodeAt(root, path), a))

Where ==
    \E path \in Paths(root), a \in WhereArgs :
        Fluent(path, where_(NodeAt(root, path), a))

OrWhere ==
    \E path \in Paths(root), a \in OrWhereArgs :
        Fluent(path, or_where_(NodeAt(root, path), a))

Count ==
    \E path \in Paths(root), a \in BOOLEAN :
        Fluent(path, count_(NodeAt(root, path), a))

Orderby ==
    \E path \in Paths(root), a \in OrderbyArgs :
        Fluent(path, orderby_(NodeAt(root, path), a))

Skip ==
    \E path \in Paths(root), a \in SkipArgs :
        Fluent(path, skip_(NodeAt(root, path), a))

Top ==
    \E path \in Paths(root), a \in TopArgs :
        Fluent(path, top_(NodeAt(root, path), a))

Expand ==
    \E path \in Paths(root), a \in ExpandArgs :
        Fluent(path, expand_(NodeAt(root, path), a))

\* generate(validate = v), called on the Query or on any ExpandQuery (which
\* hands the call to its parent)
Generate(v) ==
    \E c \in {generate(root, Metadata(metadata), v)} :
        /\ root' = c.q
        /\ ret' = c.r
        /\ UNCHANGED <<metadata, ncalls, fn, arg, out, out2>>

GenerateValidated == Generate(TRUE)

GenerateUnvalidated == Generate(FALSE)

Next ==
    \/ From \/ Edmx \/ WhoAmI \/ EntityDefinitions \/ Using
    \/ Select \/ Where \/ OrWhere \/ Count \/ Orderby \/ Skip \/ Top \/ Expand
    \/ GenerateValidated \/ GenerateUnvalidated

Spec == Init /\ [][Next]_vars

-----------------------------------------------------------------------------
(* The flatteners on their own: fn is the flattener called, arg the        *)
(* arguments of the call, out its result and out2 the result of calling it *)
(* again with the list it returned.                                        *)

\* lists of at most MaxArgs elements of S
ListsOf(S) == {PyList(items) : items \in SeqsOf(S, 0, MaxArgs)}

ExprAtoms ==
    { Eq(PyStr("a"), PyInt(1)), Eq(PyStr("b"), PyInt(2)),
      [ty |-> "And", terms |-> <<Eq(PyStr("a"), PyInt(1)), Eq(PyStr("b"), PyInt(2))>>],
      PyNone, PyStr("a") }

FieldAtoms ==
    { PyStr("a"), PyStr(" a "), PyStr("b"), PyStr(""), PyNone, PyInt(1) }

OrderbyAtoms ==
    { PyStr("B"), PyStr("A"), PyStr("B desc"), PyStr("desc"), PyStr("B up"),
      PyBool(TRUE) }

FlattenAtoms(f) ==
    CASE f = "flatten_exprs" -> ExprAtoms
      [] f = "flatten_fields" -> FieldAtoms
      [] f = "flatten_orderby" -> OrderbyAtoms

\* the arguments of one call: atoms and lists of atoms
FlattenArgs(f) ==
    SeqsOf(FlattenAtoms(f) \cup ListsOf(FlattenAtoms(f)), 1, MaxArgs)

flatten(f, items) ==
    CASE f = "flatten_exprs" -> flatten_exprs(items)
      [] f = "flatten_fields" -> flatten_fields(items)
      [] f = "flatten_orderby" -> flatten_orderby(items)

\* the list a flattener returned, as the Python list handed to the next call
AsList(f, r) ==
    PyList(IF f = "flatten_fields" THEN [i \in DOMAIN r.val |-> PyStr(r.val[i])]
           ELSE r.val)

Idle ==
    /\ metadata = None
    /\ root = QueryBase(None)
    /\ ret = Self
    /\ ncalls = 0

InitFlatten ==
    /\ Idle
    /\ fn \in {"flatten_exprs", "flatten_fields", "flatten_orderby"}
    /\ arg \in FlattenArgs(fn)
    /\ out = PyNone
    /\ out2 = PyNone

Flatten ==
    /\ out = PyNone
    /\ out' = flatten(fn, arg)
    /\ UNCHANGED <<metadata, root, ret, ncalls, fn, arg, out2>>

\* f(f(*args)): the returned list is the single argument of the second call
Reflatten ==
    /\ out # PyNone /\ ~IsRaise(out)
    /\ out2 = PyNone
    /\ out2' = flatten(fn, <<AsList(fn, out)>>)
    /\ UNCHANGED <<metadata, root, ret, ncalls, fn, arg, out>>

NextFlatten == Flatten \/ Reflatten

SpecFlatten == InitFlatten /\ [][NextFlatten]_vars

-----------------------------------------------------------------------------
(* The And / Or constructors on their own: out is a node built from        *)
(* leaves, out2 a node built from leaves, out, and lists holding them.     *)

Leaves ==
    { Eq(PyStr("a"), PyInt(1)), Eq(PyStr("b"), PyInt(2)),
      Eq(PyStr("c"), PyInt(3)), Eq(PyStr("d"), PyInt(4)) }

Construct(kind, terms) == IF kind = "And" THEN And(terms) ELSE Or(terms)

InitAst ==
    /\ Idle
    /\ fn = "" /\ arg = <<>>
    /\ out = PyNone
    /\ out2 = PyNone

BuildInner ==
    /\ out = PyNone
    /\ \E kind \in {"And", "Or"}, terms \in SeqsOf(Leaves, 1, MaxArgs) :
          out' = Construct(kind, terms)
    /\ UNCHANGED <<metadata, root, ret, ncalls, fn, arg, out2>>

BuildOuter ==
    /\ out # PyNone
    /\ out2 = PyNone
    /\ \E kind \in {"And", "Or"},
          terms \in SeqsOf(Leaves \cup {out, PyList(<<out>>)}, 1, MaxTerms) :
          /\ fn' = kind
          /\ arg' = terms
          /\ out2' = Construct(kind, terms)
    /\ UNCHANGED <<metadata, root, ret, ncalls, out>>

NextAst == BuildInner \/ BuildOuter

SpecAst == InitAst /\ [][NextAst]_vars

-----------------------------------------------------------------------------
(* Nodes compared and compiled: arg holds two nodes and the options of a   *)
(* membership test on the first, fn the rendering mode of the compiler,    *)
(* out the truth of arg[1] == arg[2], out2 the text of the membership.     *)

ExprNodes ==
    { Prop("a"), Prop("b"), Literal(PyInt(1)), Literal(PyStr("a")),
      Eq(PyStr("a"), PyInt(1)), Eq(PyStr("b"), PyInt(1)), Eq(PyStr("a"), PyInt(2)),
      CoercingBinary("Ne", PyStr("a"), PyInt(1)),
      Eq(PyInt(1), PyInt(1)),
      And(<<Eq(PyStr("a"), PyInt(1)), Eq(PyStr("b"), PyInt(2))>>),
      And(<<Eq(PyStr("b"), PyInt(1)), Eq(PyStr("b"), PyInt(2))>>),
      Or(<<Eq(PyStr("a"), PyInt(1)), Eq(PyStr("b"), PyInt(2))>>),
      Not(Eq(PyStr("a"), PyInt(1))) }

OptionValues == { PyInt(1), PyStr("x") }

InitExpr ==
    /\ Idle
    /\ fn \in {"in", "or"}
    /\ arg \in {<<a, b, options>> : a \in ExprNodes, b \in ExprNodes,
                                    options \in SeqsOf(OptionValues, 0, MaxArgs)}
    /\ out = PyNone
    /\ out2 = PyNone

\* arg[1] == arg[2]
Compare ==
    /\ out = PyNone
    /\ out' = PyBool(__eq__(arg[1], arg[2]))
    /\ UNCHANGED <<metadata, root, ret, ncalls, fn, arg, out2>>

\* compile_in(In_(arg[1], *arg[3])) with use_in_operator set as fn says
CompileIn ==
    /\ out2 = PyNone
    /\ out2' = PyStr(compile_in(In_(arg[1], arg[3]), fn = "in"))
    /\ UNCHANGED <<metadata, root, ret, ncalls, fn, arg, out>>

NextExpr == Compare \/ CompileIn

SpecExpr == InitExpr /\ [][NextExpr]_vars

-----------------------------------------------------------------------------
(* The contacts collection queried with a wider range of arguments: select *)
(* names in several spellings, filters whose root is a leaf or a GUID      *)
(* comparison, and skip_ / top_ called with any Python value.              *)

SpelledSelectArgs ==
    { <<PyStr("parentcustomerid")>>, <<PyStr("ParentCustomerId")>>,
      <<PyStr(" fullname "), PyList(<<PyStr("fullname"), PyStr("contactid")>>)>>,
      <<PyStr("fullname"), PyStr("FullName")>> }

LeafWhereArgs ==
    { <<Eq(PyStr("contactid"), PyStr(GuidText))>>,
      <<Eq(PyStr("fullname"), PyStr(GuidText))>>,
      <<Prop("fullname")>>, <<Prop("bogus")>>, <<Literal(PyInt(1))>> }

PagingArgs ==
    { PyInt(0), PyInt(2), PyInt(-1), PyBool(TRUE), PyStr("1"), PyNone }

FromContacts ==
    /\ ncalls < MaxCalls
    /\ Retarget(FromTarget_create("contacts", None, None))

SelectSpelled ==
    \E a \in SpelledSelectArgs : Fluent(<<>>, select_(root, a))

WhereLeaf ==
    \E a \in LeafWhereArgs : Fluent(<<>>, where_(root, a))

SkipAny ==
    \E a \in PagingArgs : Fluent(<<>>, skip_(root, a))

TopAny ==
    \E a \in PagingArgs : Fluent(<<>>, top_(root, a))

NextArgs ==
    \/ FromContacts \/ SelectSpelled \/ WhereLeaf \/ SkipAny \/ TopAny
    \/ GenerateValidated \/ GenerateUnvalidated

SpecArgs == Init /\ [][NextArgs]_vars

-----------------------------------------------------------------------------
(* Expansions below a collection or below a focused record, with the       *)
(* navigation properties spelled other than the schema spells them.        *)

FocusArgs == { "parentcustomerid_account", "contact_notes" }

SpelledExpandArgs == { "ParentCustomerId_Account", "PrimaryContactId" }

FromFocused ==
    \E focus \in FocusArgs :
        /\ ncalls < MaxCalls
        /\ Retarget(FromTarget_create("contacts", Some(GuidText), Some(focus)))

ExpandSpelled ==
    \E path \in Paths(root), a \in SpelledExpandArgs :
        Fluent(path, expand_(NodeAt(root, path), a))

NextExpand ==
    \/ FromContacts \/ FromFocused \/ ExpandSpelled
    \/ GenerateValidated \/ GenerateUnvalidated

SpecExpand == Init /\ [][NextExpand]_vars

-----------------------------------------------------------------------------
(* Filters over a collection: every kind of node of the filter vocabulary, *)
(* and comparisons of attributes of each EDM type with literals of each    *)
(* runtime kind.                                                           *)

VocabularyWhereArgs ==
    { <<CoercingBinary(kind, PyStr("fullname"), PyStr("Jane"))>> :
          kind \in CoercingBinaryKinds }
    \cup { <<And(<<Eq(PyStr("fullname"), PyStr("Jane")),
                   Eq(PyStr("numberofchildren"), PyInt(2))>>)>>,
           <<Or(<<Eq(PyStr("fullname"), PyStr("Jane")),
                  Eq(PyStr("fullname"), PyStr("Joe"))>>)>>,
           <<Not(Eq(PyStr("fullname"), PyStr("Jane")))>>,
           <<In_(PyStr("fullname"), <<PyStr("Jane"), PyStr("Joe")>>)>> }

EdmAttributeNames == { "fullname", "numberofchildren", "donotemail", "creditlimit",
                       "createdon" }

LiteralValues == { PyStr("Jane"), PyInt(2), PyBool(TRUE) }

TypedWhereArgs ==
    { <<Eq(PyStr(name), value)>> : name \in EdmAttributeNames, value \in LiteralValues }

WhereVocabulary ==
    \E a \in VocabularyWhereArgs : Fluent(<<>>, where_(root, a))

WhereTyped ==
    \E a \in TypedWhereArgs : Fluent(<<>>, where_(root, a))

NextFilter ==
    \/ FromContacts \/ WhereVocabulary \/ WhereTyped
    \/ GenerateValidated \/ GenerateUnvalidated

SpecFilter == Init /\ [][NextFilter]_vars

-----------------------------------------------------------------------------
(* The comparison, string-predicate and membership constructors on their   *)
(* own: out is a node built from raw values, out2 a node built from raw    *)
(* values, leaves and nodes already built (arg holds what was passed in,   *)
(* fn the class constructed).                                              *)

RawValues == { PyStr("a"), PyInt(1), PyBool(TRUE) }

BuildFromValues ==
    /\ out = PyNone
    /\ \E kind \in CoercingBinaryKinds, left \in RawValues, right \in RawValues :
          out' = CoercingBinary(kind, left, right)
    /\ UNCHANGED <<metadata, root, ret, ncalls, fn, arg, out2>>

BuildFromNodes ==
    /\ out # PyNone
    /\ out2 = PyNone
    /\ \E kind \in CoercingBinaryKinds \cup {"In_"},
          left \in RawValues \cup {Prop("b"), out, Not(out)},
          right \in RawValues \cup {Literal(PyInt(2)), out, Not(out)} :
          /\ fn' = kind
          /\ arg' = <<left, right>>
          /\ out2' = IF kind = "In_" THEN In_(left, <<right, PyInt(3)>>)
                     ELSE CoercingBinary(kind, left, right)
    /\ UNCHANGED <<metadata, root, ret, ncalls, out>>

NextBuild == BuildFromValues \/ BuildFromNodes

SpecBuild == InitAst /\ [][NextBuild]_vars

-----------------------------------------------------------------------------
(* Metadata built from parsed schemas: arg holds the entities of a parsed  *)
(* schema in declaration order, out the ServiceMetadata built from them,   *)
(* fn an entity-set name and out2 what get_entity returns for it.          *)

EntityNames == { "contact", "contacts", "account" }

EntitySetNames == { None, Some(""), Some("contacts"), Some("accounts") }

\* an entity type as the parser declares it, with its key and no properties
EntityDecls ==
    { [k |-> name, v |-> Entity(Some(name \o "id"), set, <<>>, <<>>)] :
          name \in EntityNames, set \in EntitySetNames }

\* the entities of a schema are keyed by name
ParsedEntities ==
    { es \in SeqsOf(EntityDecls, 1, MaxArgs) :
          \A i \in DOMAIN es, j \in DOMAIN es : i # j => es[i].k # es[j].k }

InitSchema ==
    /\ Idle
    /\ fn = ""
    /\ arg \in ParsedEntities
    /\ out = PyNone
    /\ out2 = PyNone

BuildMetadata ==
    /\ out = PyNone
    /\ out' = ServiceMetadata("Ns", "mscrm", arg, <<>>)
    /\ UNCHANGED <<metadata, root, ret, ncalls, fn, arg, out2>>

GetEntityBySet ==
    /\ out # PyNone
    /\ out2 = PyNone
    /\ \E i \in DOMAIN out.entity_sets :
          /\ fn' = out.entity_sets[i].k
          /\ out2' = get_entity(out, out.entity_sets[i].k)
    /\ UNCHANGED <<metadata, root, ret, ncalls, arg, out>>

NextSchema == BuildMetadata \/ GetEntityBySet

SpecSchema == InitSchema /\ [][NextSchema]_vars

-----------------------------------------------------------------------------
(* Cached metadata being loaded: arg holds the data, out the outcome of    *)
(* loading it as an already-parsed list, out2 the outcome of loading it as *)
(* the content of a JSON document.                                         *)

Absent == [ty |-> "absent"]

\* a schema object with the given values, without the keys that are absent
SchemaObject(namespace, alias, entities, enums, complex_types, entity_sets) ==
    PyDict(SelectSeq(<< [k |-> "namespace", v |-> namespace],
                        [k |-> "alias", v |-> alias],
                        [k |-> "entities", v |-> entities],
                        [k |-> "enums", v |-> enums],
                        [k |-> "complex_types", v |-> complex_types],
                        [k |-> "entity_sets", v |-> entity_sets] >>,
                     LAMBDA item : item.v # Absent))

SchemaObjects ==
    { SchemaObject(namespace, alias, entities, enums, complex_types, entity_sets) :
          namespace \in {Absent, PyStr("Ns"), PyNone, PyInt(1)},
          alias \in {Absent, PyStr("mscrm"), PyInt(1)},
          entities \in {Absent, PyDict(<<>>), PyList(<<>>)},
          enums \in {Absent, PyDict(<<>>)},
          complex_types \in {PyDict(<<>>), PyNone},
          entity_sets \in {Absent, PyDict(<<>>), PyList(<<>>)} }

\* the schema object a cache written by the parser holds
CachedSchema ==
    SchemaObject(PyStr("Ns"), PyStr("mscrm"), PyDict(<<>>), PyDict(<<>>),
                 PyDict(<<>>), PyDict(<<>>))

CachedData ==
    SchemaObjects
        \cup {PyList(<<o>>) : o \in SchemaObjects}
        \cup {PyList(<<CachedSchema, o>>) : o \in SchemaObjects}
        \cup {PyList(<<>>), PyList(<<PyStr("Ns")>>), PyStr("Ns"), PyInt(1), PyNone}

InitCache ==
    /\ Idle
    /\ fn = ""
    /\ arg \in CachedData
    /\ out = PyNone
    /\ out2 = PyNone

\* EdmxMetadata(source) with an already-parsed list as the source
LoadParsed ==
    /\ out = PyNone
    /\ arg.ty = "list"
    /\ out' = _validate_cached_metadata(arg)
    /\ UNCHANGED <<metadata, root, ret, ncalls, fn, arg, out2>>

\* the data read from a JSON document: a single object is put into a list
LoadJson ==
    /\ out2 = PyNone
    /\ out2' = _validate_cached_metadata(IF arg.ty = "dict" THEN PyList(<<arg>>)
                                         ELSE arg)
    /\ UNCHANGED <<metadata, root, ret, ncalls, fn, arg, out>>

NextCache == LoadParsed \/ LoadJson

SpecCache == InitCache /\ [][NextCache]_vars

-----------------------------------------------------------------------------
(* Properties of generate() and of the targets.                            *)

\* a step of generate(): the only call that leaves ncalls alone
IsGenerate == ncalls' = ncalls /\ (GenerateValidated \/ GenerateUnvalidated)

\* FromTarget addressing a whole collection: no id, no focus
IsCollection(q) ==
    /\ q.target # None
    /\ q.target[1].cls = "FromTarget"
    /\ q.target[1].id = None
    /\ q.target[1].focus = None

\* s begins with prefix
StartsWith(s, prefix) ==
    Len(s) >= Len(prefix) /\ SubSeq(s, 1, Len(prefix)) = prefix

\* sub occurs in s
Contains(s, sub) ==
    \E i \in 1..(Len(s) - Len(sub) + 1) : SubSeq(s, i, i + Len(sub) - 1) = sub

\* the seven facets of a node as text ("" for an absent one), in the order
\* $select, $filter, $count, $orderby, $skip, $top, $expand
FacetTexts(q) ==
    << IF q.select = <<>> THEN "" ELSE "$select=" \o join(",", q.select),
       IF q.filter = None THEN "" ELSE "$filter=" \o compile_expr(q.filter[1]),
       IF q.count = None THEN ""
       ELSE IF q.count[1] THEN "$count=true" ELSE "$count=false",
       IF q.orderby = <<>> THEN "" ELSE "$orderby=" \o compile_orderby(q.orderby),
       IF q.skip = None THEN "" ELSE "$skip=" \o ToString(q.skip[1].n),
       IF q.top = None THEN "" ELSE "$top=" \o ToString(q.top[1].n),
       IF q.expand = <<>> THEN ""
       ELSE join(",", compile_expansions(q.expand, 1, <<>>).val) >>

\* the text of a collection query: the path, then "?" and the present facets
\* joined by "&"
ExpectedUrl(q) ==
    LET present == SelectSeq(FacetTexts(q), LAMBDA t : t # "")
    IN  "/" \o q.target[1].entity_set
            \o (IF present = <<>> THEN "" ELSE "?" \o join("&", present))

\* the query of the round-trip scenario
ScenarioQuery ==
    top_(orderby_(where_([QueryBase(None) EXCEPT !.target =
                             Some(FromTarget_create("contacts", None, None).val)],
                         <<Eq(PyStr("fullname"), PyStr("Jane"))>>).q,
                  <<PyStr("fullname desc")>>).q,
         PyInt(5)).q

\* C1: a generate() that validates a collection query and returns, returns
\* the path followed by "?" and the present facets in the order $select,
\* $filter, $count, $orderby, $skip, $top, $expand joined by "&", and the
\* bare path when no facet is present; the scenario query yields
\* /contacts?$filter=(fullname eq 'Jane')&$orderby=fullname desc&$top=5.
C1_FacetsInFixedOrder ==
    /\ generate(ScenarioQuery, Some(Schema), TRUE).r
         = Return(PyStr("/contacts?$filter=(fullname eq 'Jane')&$orderby=fullname desc&$top=5"))
    /\ [][(ncalls' = ncalls /\ GenerateValidated /\ IsCollection(root)
           /\ ~IsRaise(ret'))
          => ret' = Return(PyStr(ExpectedUrl(root')))]_vars

\* a collection query with a filter and a $top, held by a Query that has its
\* schema, has been generated
C1_Witness ==
    /\ metadata # None
    /\ IsCollection(root)
    /\ ret = Return(PyStr("/contacts?$filter=(fullname eq 'Jane')&$top=5"))

\* the facets of a node that its target does not allow
Offending(q) == _present_parts(q) \ q.target[1].allowed_parts

\* a target with a restricted set: neither sentinel among its allowed parts
IsRestricted(t) == AnyPart \notin t.allowed_parts /\ NoPart \notin t.allowed_parts

\* the one error that lists every facet of the set, in alphabetical order
CapabilityError(t, facets) ==
    Raise("ValueError",
          t.cls \o " does not allow: "
              \o join(", ", SelectSeq(PartNamesSorted, LAMBDA n : n \in facets))
              \o "."
              \o (IF t.cls = "FromTarget"
                  THEN " FROM only allows SELECT and EXPAND when using ID or FOCUS."
                  ELSE ""))

\* r is an error of the capability gate
IsCapabilityError(r) ==
    IsRaise(r) /\ r.exc = "ValueError" /\ Contains(r.msg, " does not allow")

\* C2: on generate(), a node whose target allows AnyPart is never rejected
\* by the gate; a node whose target has a restricted set is rejected if and
\* only if one of its present facets lies outside the set, and the single
\* error lists every such facet: for the Query itself the gate runs first,
\* for expansions it runs when they are compiled.
C2_CapabilityGate ==
    [][(IsGenerate /\ root.target # None)
       => /\ AnyPart \in root.target[1].allowed_parts
               => ~(IsCapabilityError(ret') /\ StartsWith(ret'.msg, "FromTarget"))
          /\ IsRestricted(root.target[1])
               => /\ Offending(root) # {}
                       => ret' = CapabilityError(root.target[1], Offending(root))
                  /\ Offending(root) = {}
                       => ~(IsCapabilityError(ret')
                            /\ StartsWith(ret'.msg, root.target[1].cls))
          /\ ~IsRaise(ret')
               => \A p \in Paths(root') :
                     IsRestricted(NodeAt(root', p).target[1])
                        => Offending(NodeAt(root', p)) = {}
          /\ (IsCapabilityError(ret') /\ StartsWith(ret'.msg, "ExpandTarget"))
               => \E p \in Paths(root') \ {<<>>} :
                     /\ Offending(NodeAt(root', p)) # {}
                     /\ ret' = CapabilityError(NodeAt(root', p).target[1],
                                               Offending(NodeAt(root', p)))
          /\ (GenerateUnvalidated /\ NoPart \notin root.target[1].allowed_parts
              /\ \E p \in Paths(root) : /\ IsRestricted(NodeAt(root, p).target[1])
                                        /\ Offending(NodeAt(root, p)) # {})
               => IsCapabilityError(ret')]_vars

\* a record target with $filter and $top set has been refused, both named
C2_Witness ==
    /\ root.target # None
    /\ root.target[1].cls = "FromTarget"
    /\ root.target[1].id # None
    /\ Offending(root) = {"FILTER", "TOP"}
    /\ ret = CapabilityError(root.target[1], {"FILTER", "TOP"})

\* C3: generate() on the /$metadata or /WhoAmI target with any of select,
\* filter, orderby, skip, top or count present raises a capability error,
\* and that error names every facet present on the query.
C3_NoPartErrorNamesFacets ==
    [][(IsGenerate /\ root.target # None
        /\ root.target[1].cls \in {"EdmxTarget", "WhoAmITarget"}
        /\ _present_parts(root) \ {"EXPAND"} # {})
       => /\ IsCapabilityError(ret')
          /\ \A part \in _present_parts(root) \ {"EXPAND"} :
                Contains(ret'.msg, part)]_vars

\* C4: from_ with a focus and no id is rejected and leaves the target alone;
\* every target it creates has allowed_parts {SELECT, EXPAND} when it has an
\* id or a focus, and the unrestricted set otherwise.
C4_FromTargetCapabilities ==
    [][\A a \in FromArgs :
          (ncalls < MaxCalls
           /\ Retarget(FromTarget_create(a.entity_set, a.id, a.focus)))
          => IF a.focus # None /\ a.id = None
             THEN IsRaise(ret') /\ root' = root
             ELSE /\ ret' = Self
                  /\ root'.target[1].cls = "FromTarget"
                  /\ root'.target[1].id = a.id
                  /\ root'.target[1].focus = a.focus
                  /\ root'.target[1].allowed_parts
                        = IF a.id # None \/ a.focus # None
                          THEN {"SELECT", "EXPAND"} ELSE {AnyPart}]_vars

\* a target with an id holds exactly SELECT and EXPAND
C4_Witness ==
    /\ root.target # None
    /\ root.target[1].cls = "FromTarget"
    /\ root.target[1].id # None
    /\ root.target[1].focus = None
    /\ root.target[1].allowed_parts = {"SELECT", "EXPAND"}

\* C5: the orderby list of every node holds at most one entry per field.
C5_OneEntryPerField ==
    \A p \in Paths(root) :
        LET items == NodeAt(root, p).orderby
        IN  \A i, j \in DOMAIN items : items[i].field = items[j].field => i = j

-----------------------------------------------------------------------------
(* Properties of the flatteners and of the And / Or constructors.          *)

\* "asc" or "desc" in any case
IsDirection(s) == lower(s) \in {"asc", "desc"}

\* a string of the form "Field", "Field asc" or "Field desc"
IsOrderString(x) ==
    /\ x.ty = "str"
    /\ LET parts == split(strip(x.s))
       IN  Len(parts) = 1 \/ (Len(parts) = 2 /\ IsDirection(parts[2]))

\* a pair (field, "asc" | "desc" | bool)
IsDirectedPair(x) ==
    /\ x.ty \in {"list", "tuple"}
    /\ Len(x.items) = 2
    /\ x.items[1].ty = "str"
    /\ \/ x.items[2].ty = "bool"
       \/ x.items[2].ty = "str" /\ IsDirection(x.items[2].s)

\* an ordering input of the documented forms: a string, a pair, or an
\* iterable of such inputs
RECURSIVE IsOrderInput(_)
IsOrderInput(x) ==
    \/ IsOrderString(x)
    \/ IsDirectedPair(x)
    \/ /\ x.ty \in {"list", "tuple"}
       /\ \A i \in DOMAIN x.items : IsOrderInput(x.items[i])

\* the (field, desc) requests an ordering input makes, left to right
RECURSIVE Requests(_), RequestsOfAll(_)
Requests(x) ==
    IF x.ty = "str"
    THEN LET parts == split(strip(x.s))
         IN  << [field |-> parts[1],
                 desc |-> Len(parts) = 2 /\ lower(parts[2]) = "desc"] >>
    ELSE IF IsDirectedPair(x)
    THEN << [field |-> strip(x.items[1].s),
             desc |-> IF x.items[2].ty = "bool" THEN x.items[2].b
                      ELSE lower(x.items[2].s) = "desc"] >>
    ELSE RequestsOfAll(x.items)

RequestsOfAll(items) ==
    IF items = <<>> THEN <<>>
    ELSE Requests(Head(items)) \o RequestsOfAll(Tail(items))

\* one OrderByItem per distinct field requested, in the order the fields are
\* first requested, each with the direction requested for it last
OnePerField(reqs) ==
    LET firsts == SelectSeq([i \in DOMAIN reqs |-> i],
                            LAMBDA i : \A j \in 1..(i - 1) :
                                          reqs[j].field # reqs[i].field)
        last(f) == CHOOSE i \in DOMAIN reqs :
                      /\ reqs[i].field = f
                      /\ \A j \in DOMAIN reqs : reqs[j].field = f => j <= i
    IN  [k \in DOMAIN firsts |->
            OrderByItem(reqs[firsts[k]].field, reqs[last(reqs[firsts[k]].field)].desc)]

\* C6: flatten_orderby, given strings, pairs and nested iterables of them,
\* returns one OrderByItem per distinct field in first-occurrence order with
\* the direction given last; given a string whose ordering token is neither
\* asc nor desc it raises.
C6_FlattenOrderby ==
    (fn = "flatten_orderby" /\ out # PyNone)
    => /\ (\A i \in DOMAIN arg : IsOrderInput(arg[i]))
             => out = Return(OnePerField(RequestsOfAll(arg)))
       /\ (\E i \in DOMAIN arg : arg[i] = PyStr("B up")) => IsRaise(out)

\* the terms And(*terms) / Or(*terms) is to hold: each argument in order,
\* lists opened, a node of the same kind replaced by its own terms
RECURSIVE Spliced(_, _)
Spliced(kind, terms) ==
    IF terms = <<>> THEN <<>>
    ELSE LET x == Head(terms)
         IN  (CASE x.ty = "list" -> Spliced(kind, x.items)
                [] x.ty = kind -> x.terms
                [] OTHER -> <<x>>)
             \o Spliced(kind, Tail(terms))

\* C7: a constructed And (Or) holds the terms of every directly nested And
\* (Or) spliced in place, in order and with duplicates kept, so that no And
\* has an And among its terms and no Or an Or.
C7_SplicesNested ==
    /\ out # PyNone => \A i \in DOMAIN out.terms : out.terms[i].ty # out.ty
    /\ out2 # PyNone
          => /\ out2.ty = fn
             /\ out2.terms = Spliced(fn, arg)
             /\ \A i \in DOMAIN out2.terms : out2.terms[i].ty # fn

\* And(a, And(b, c), d) has been built and holds a, b, c, d
C7_Witness ==
    LET a == Eq(PyStr("a"), PyInt(1))
        b == Eq(PyStr("b"), PyInt(2))
        c == Eq(PyStr("c"), PyInt(3))
        d == Eq(PyStr("d"), PyInt(4))
    IN  /\ fn = "And"
        /\ arg = <<a, [ty |-> "And", terms |-> <<b, c>>], d>>
        /\ out2 = [ty |-> "And", terms |-> <<a, b, c, d>>]

\* C8: for each flattener, the call on the list it returned succeeds and
\* returns that list again.
C8_FlattenIdempotent ==
    (out # PyNone /\ ~IsRaise(out) /\ out2 # PyNone) => out2 = out

-----------------------------------------------------------------------------
(* Properties of validation.                                               *)

\* the primary key the schema declares for the entity a validated node
\* addresses
KeyOfTarget(t) ==
    LET name == IF t.cls = "FromTarget" /\ t.focus_entity # None
                THEN t.focus_entity[1]
                ELSE IF t.cls = "FromTarget" THEN t.entity_set
                ELSE t.entity_set[1]
    IN  CASE name \in {"contact", "contacts"} -> "contactid"
          [] name \in {"account", "accounts"} -> "accountid"

\* the select list of a node before and after a validation agree with the
\* sentinels
SentinelsApplied(before, after) ==
    /\ "-" \in Range(before.select) => after.select = <<KeyOfTarget(after.target[1])>>
    /\ ("-" \notin Range(before.select) /\ "*" \in Range(before.select))
          => after.select = <<>>

\* C9: validation replaces a select list containing "-" by exactly the
\* primary key of the target entity and, failing that, one containing "*"
\* by the empty list, whatever else the list holds: for the Query as soon as
\* its target resolves, for every node when generate() returns.
C9_SelectSentinels ==
    [][(ncalls' = ncalls /\ GenerateValidated)
       => /\ (/\ root.target # None
              /\ root.target[1].cls = "FromTarget"
              /\ _enforce_allowed_parts(root, root.target[1]) = None
              /\ target_validation(root, Metadata(metadata), None).exc = None)
                => SentinelsApplied(root, root')
          /\ ~IsRaise(ret')
                => \A p \in Paths(root) :
                      SentinelsApplied(NodeAt(root, p), NodeAt(root', p))]_vars

\* a select list has been replaced by the primary key and compiled
C9_Witness ==
    /\ IsCollection(root)
    /\ root.select = <<"contactid">>
    /\ ret = Return(PyStr("/contacts?$select=contactid"))

\* the member of Status a literal denotes: by name in any case, or by value
StatusMember(value) ==
    CASE lower(str(value)) = "active" \/ str(value) = "1" -> Some("Active")
      [] lower(str(value)) = "inactive" \/ str(value) = "2" -> Some("Inactive")
      [] OTHER -> None

\* C10: validating a collection query whose filter compares the enum
\* attribute statuscode with a literal naming a member of Status (by name in
\* any case, or by value) compiles to (statuscode eq Ns.Status'Member'); a
\* literal naming no member raises a lookup error.
C10_EnumLiteralRewritten ==
    [][(/\ ncalls' = ncalls /\ GenerateValidated
        /\ metadata # None
        /\ IsCollection(root)
        /\ _present_parts(root) = {"FILTER"}
        /\ root.filter[1].ty = "Eq"
        /\ root.filter[1].left = Prop("statuscode")
        /\ root.filter[1].right.ty = "Literal")
       => LET member == StatusMember(root.filter[1].right.value)
          IN  IF member # None
              THEN ret' = Return(PyStr("/contacts?$filter=(statuscode eq Ns.Status'"
                                           \o member[1] \o "')"))
              ELSE IsRaise(ret') /\ ret'.exc = "ValidationLookupError"]_vars

\* the filter of q is Eq(Prop(name), Literal(GuidText)) and its only facet
ComparesWithGuid(q, name) ==
    /\ IsCollection(q)
    /\ _present_parts(q) = {"FILTER"}
    /\ q.filter[1] = Eq(PyStr(name), PyStr(GuidText))

\* C11: validating a collection query whose filter compares the GUID
\* attribute contactid with a string literal holding a valid GUID compiles
\* to (contactid eq <guid>) without quotes, while the same comparison
\* against the string attribute fullname compiles with the value quoted.
C11_GuidLiteralUnquoted ==
    [][(ncalls' = ncalls /\ GenerateValidated /\ metadata # None)
       => /\ ComparesWithGuid(root, "contactid")
                => ret' = Return(PyStr("/contacts?$filter=(contactid eq "
                                           \o GuidText \o ")"))
          /\ ComparesWithGuid(root, "fullname")
                => ret' = Return(PyStr("/contacts?$filter=(fullname eq '"
                                           \o GuidText \o "')"))]_vars

\* what validation may rewrite is the same in both trees: the target, select
\* list, orderby list and filter of the node and of every expansion below it
RECURSIVE Untouched(_, _)
Untouched(before, after) ==
    /\ after.target = before.target
    /\ after.select = before.select
    /\ after.orderby = before.orderby
    /\ after.filter = before.filter
    /\ Len(after.expand) = Len(before.expand)
    /\ \A i \in DOMAIN before.expand : Untouched(before.expand[i], after.expand[i])

\* C12: a generate(validate=True) that raises a lookup error leaves the
\* target, select list, orderby list and filter of every query of the tree
\* as they were before the call.
C12_ValidationAllOrNothing ==
    [][(/\ ncalls' = ncalls /\ GenerateValidated
        /\ IsRaise(ret') /\ ret'.exc = "ValidationLookupError")
       => Untouched(root, root')]_vars

\* the fixed path of a target that never requires metadata
FixedPath(cls) ==
    CASE cls = "WhoAmITarget" -> "/WhoAmI"
      [] cls = "EdmxTarget" -> "/$metadata"
      [] cls = "EntityDefinitionsTarget" -> "/EntityDefinitions"

\* q addresses a fixed endpoint with the facets the claim names: none, or a
\* select on /EntityDefinitions
IsFixedEndpoint(q) ==
    /\ q.target # None
    /\ q.target[1].cls \in {"WhoAmITarget", "EdmxTarget", "EntityDefinitionsTarget"}
    /\ \/ _present_parts(q) = {}
       \/ /\ q.target[1].cls = "EntityDefinitionsTarget"
          /\ _present_parts(q) = {"SELECT"}

\* C13: generate() with validation, on a Query without a schema, of a
\* /WhoAmI or /$metadata target without facets or of an /EntityDefinitions
\* target with or without a select, returns the fixed path of the target,
\* followed by ?$select=<fields> when fields are selected.
C13_FixedEndpointsWithoutSchema ==
    [][(/\ ncalls' = ncalls /\ GenerateValidated
        /\ metadata = None
        /\ IsFixedEndpoint(root))
       => ret' = Return(PyStr(FixedPath(root.target[1].cls)
                    \o (IF root.select = <<>> THEN ""
                        ELSE "?$select=" \o join(",", root.select))))]_vars

-----------------------------------------------------------------------------
(* Properties of the rendering of expansions.                              *)

\* the facets of a node other than $expand that are present, as text
OwnFacetTexts(q) ==
    SelectSeq(SubSeq(FacetTexts(q), 1, 6), LAMBDA t : t # "")

\* the expansions es by the grammar
\*   expand     = "$expand=" expandItem ("," expandItem)*
\*   expandItem = navProp ["(" expandPart (";" expandPart)* ")"]
\* where the expand of a nested query is one of its expandParts
RECURSIVE GrammarExpand(_)
GrammarExpand(es) ==
    LET inner(e) == join(";", OwnFacetTexts(e)
                                \o (IF e.expand = <<>> THEN <<>>
                                    ELSE <<GrammarExpand(e.expand)>>))
        item(e) == e.target[1].navigation_property
                       \o (IF inner(e) = "" THEN "" ELSE "(" \o inner(e) \o ")")
    IN  "$expand=" \o join(",", [i \in DOMAIN es |-> item(es[i])])

\* C14: the text generate() returns for a query with expansions ends with a
\* single "$expand=" followed by the expand items separated by ","; inside
\* the parentheses of an item the parts of the nested query, its own expand
\* included, are separated by ";", at every depth.
C14_ExpandGrammar ==
    [][(IsGenerate /\ ~IsRaise(ret') /\ root.expand # <<>>)
       => ret' = Return(PyStr(to_path(root'.target[1]) \o "?"
                    \o join("&", OwnFacetTexts(root')
                                    \o <<GrammarExpand(root'.expand)>>)))]_vars

-----------------------------------------------------------------------------
(* Properties of the facets of a node.                                     *)

\* no element of the list occurs twice
NoDuplicates(list) ==
    \A i, j \in DOMAIN list : list[i] = list[j] => i = j

\* C15: the select list of every node holds no field twice, after any
\* sequence of select_ calls and after validation has rewritten entries to
\* their wire names.
C15_SelectHoldsNoFieldTwice ==
    \A p \in Paths(root) : NoDuplicates(NodeAt(root, p).select)

-----------------------------------------------------------------------------
(* Properties of the nodes and of their compilation.                       *)

\* C16: two nodes compare equal exactly when they are of the same kind, have
\* the same shape and carry equal leaf values; nodes that differ only in a
\* Prop name compare unequal.
C16_EqualityIsStructural ==
    out # PyNone => out = PyBool(arg[1] = arg[2])

\* C18: a membership node with an empty option list compiles to exactly
\* (false), with the native "in" rendering and with the OR expansion alike,
\* whatever its subject.
C18_EmptyMembershipIsFalse ==
    (out2 # PyNone /\ arg[3] = <<>>) => out2 = PyStr("(false)")

\* an empty membership on a comparison has been compiled with the native
\* rendering switched on
C18_Witness ==
    /\ fn = "in"
    /\ arg[1] = Eq(PyStr("a"), PyInt(1))
    /\ arg[3] = <<>>
    /\ out2 = PyStr("(false)")

-----------------------------------------------------------------------------
(* Properties of filters whose root is a leaf.                             *)

\* a bare Prop or a bare Literal
IsLeaf(expr) == expr.ty \in {"Prop", "Literal"}

\* validation of q reaches its filter: target and select raise nothing
ReachesFilter(q, md) ==
    Then(target_validation(q, md, None), LAMBDA n : select_validation(n, md)).exc
        = None

\* C17: where_() accepts a bare Prop or a bare Literal and stores it as the
\* filter of a query that had none; validating a collection query whose filter
\* is such a leaf raises ValidationError for the naked expression, whether or
\* not the Prop names an attribute of the entity.
C17_NakedLeafRejectedAtValidation ==
    [][/\ \A a \in LeafWhereArgs :
            (IsLeaf(a[1]) /\ Fluent(<<>>, where_(root, a)))
               => /\ ret' = Self
                  /\ root.filter = None => root'.filter = Some(a[1])
       /\ (/\ ncalls' = ncalls /\ GenerateValidated
           /\ IsCollection(root)
           /\ root.filter # None /\ IsLeaf(root.filter[1])
           /\ ReachesFilter(root, Metadata(metadata)))
          => /\ IsRaise(ret') /\ ret'.exc = "ValidationError"
             /\ ret'.msg = (IF root.filter[1].ty = "Prop"
                            THEN "Naked Prop expression was found."
                            ELSE "Naked Literal expression was found.")]_vars

\* the filter Prop("bogus"), which names no attribute of contact, was stored
\* and then rejected as a naked expression
C17_Witness ==
    /\ metadata # None
    /\ IsCollection(root)
    /\ root.filter = Some(Prop("bogus"))
    /\ ret = Raise("ValidationError", "Naked Prop expression was found.")

-----------------------------------------------------------------------------
(* Properties of skip_ and top_.                                           *)

\* a Python int (a bool is one) that is not negative
IsNonNegativeInt(n) == IsInt(n) /\ IntValue(n) >= 0

\* the stored value is unset or a non-negative integer
IsPaging(v) == v = None \/ IsNonNegativeInt(v[1])

\* text carries the facet name=<the integer v stands for> as one of its parts
RendersInteger(text, name, v) ==
    Contains(text \o "&", name \o "=" \o ToString(IntValue(v)) \o "&")

\* C19: skip and top are each unset or a non-negative integer; skip_ / top_
\* store a non-negative integer and, for any other argument, raise ValueError
\* and leave the stored value as it was; generate() renders $skip= and $top=
\* with the stored integer.
C19_PagingIsNonNegativeInteger ==
    /\ IsPaging(root.skip) /\ IsPaging(root.top)
    /\ [][/\ \A n \in PagingArgs :
               /\ Fluent(<<>>, skip_(root, n))
                    => IF IsNonNegativeInt(n)
                       THEN ret' = Self /\ root'.skip = Some(n)
                       ELSE /\ IsRaise(ret') /\ ret'.exc = "ValueError"
                            /\ root' = root
               /\ Fluent(<<>>, top_(root, n))
                    => IF IsNonNegativeInt(n)
                       THEN ret' = Self /\ root'.top = Some(n)
                       ELSE /\ IsRaise(ret') /\ ret'.exc = "ValueError"
                            /\ root' = root
          /\ IsPaging(root'.skip) /\ IsPaging(root'.top)
          /\ (IsGenerate /\ ~IsRaise(ret'))
               => /\ root.skip # None
                       => RendersInteger(ret'.val.s, "$skip", root.skip[1])
                  /\ root.top # None
                       => RendersInteger(ret'.val.s, "$top", root.top[1])]_vars

-----------------------------------------------------------------------------
(* Properties of the order of the gate and validation.                     *)

\* C20: when an expansion at any depth carries a facet its target does not
\* allow, generate(validate=True) on a Query holding its schema raises the
\* capability error, and the
\* target, select list, orderby list and filter of the root and of every
\* expansion are as they were before the call.
C20_GateRunsBeforeValidation ==
    [][(/\ ncalls' = ncalls /\ GenerateValidated
        /\ metadata # None
        /\ root.target # None
        /\ \E p \in Paths(root) \ {<<>>} : Offending(NodeAt(root, p)) # {})
       => IsCapabilityError(ret') /\ Untouched(root, root')]_vars

-----------------------------------------------------------------------------
\* C21: generate(validate=True) is repeatable.  After a call that returned,
\* a second call with no builder call in between returns the same string,
\* raises nothing and leaves the tree (path, select, orderby, filter of every
\* query, as the first validation rewrote them) as it found it.
C21_GenerateRepeatable ==
    [][(/\ ncalls' = ncalls /\ GenerateValidated
        /\ ~IsRaise(ret'))
       => generate(root', Metadata(metadata), TRUE) = Called(root', ret')]_vars

-----------------------------------------------------------------------------
\* the entity a validated target stands for
ResolvedEntity(t) == get_entity(Schema, target_entity(t).val[1])

\* every expansion names, in some letter case, a navigation property of the
\* entity above it whose target entity the schema declares
RECURSIVE Resolves(_, _)
Resolves(entity, es) ==
    \A i \in DOMAIN es :
        LET nav == get_navigation_property(Schema,
                       es[i].target[1].navigation_property, entity)
        IN  /\ nav.item # None
            /\ get_entity(Schema, nav.item[1].to_entity_type).entity # None
            /\ Resolves(get_entity(Schema, nav.item[1].to_entity_type).entity,
                        es[i].expand)

\* only targets and expansions, no other facet anywhere in the tree
RECURSIVE OnlyExpands(_)
OnlyExpands(q) ==
    /\ Offending(q) \subseteq {"EXPAND"}
    /\ _present_parts(q) \subseteq {"EXPAND"}
    /\ \A i \in DOMAIN q.expand : OnlyExpands(q.expand[i])

-----------------------------------------------------------------------------
\* the attribute names an expression mentions
RECURSIVE PropNamesOf(_)
PropNamesOf(expr) ==
    CASE expr.ty = "Prop" -> {expr.name}
      [] expr.ty = "Literal" -> {}
      [] expr.ty \in {"And", "Or"} ->
            UNION {PropNamesOf(expr.terms[i]) : i \in DOMAIN expr.terms}
      [] expr.ty \in CoercingBinaryKinds ->
            PropNamesOf(expr.left) \cup PropNamesOf(expr.right)
      [] expr.ty = "Not" -> PropNamesOf(expr.expr)
      [] expr.ty = "In_" ->
            PropNamesOf(expr.left)
                \cup UNION {PropNamesOf(expr.options[i]) : i \in DOMAIN expr.options}

\* C23: a filter attached to an expansion is validated against the expanded
\* entity.  Whenever generate(validate=True) returns instead of raising, the
\* filter of every expansion is no bare Prop or Literal and names only
\* attributes of the entity the expansion's navigation property leads to.
C23_ExpansionFilterValidated ==
    [][(/\ ncalls' = ncalls /\ GenerateValidated
        /\ metadata # None
        /\ ~IsRaise(ret'))
       => \A p \in Paths(root') \ {<<>>} :
              LET n == NodeAt(root', p)
              IN  n.filter # None
                      => /\ ~IsLeaf(n.filter[1])
                         /\ \A name \in PropNamesOf(n.filter[1]) :
                                get_attribute(Schema, name,
                                    ResolvedEntity(n.target[1]).entity).item
                                    # None]_vars

-----------------------------------------------------------------------------
\* the wire names (api_name) of the attributes an entity declares
ApiNames(entity) ==
    {entity.attributes[i].v.api_name : i \in DOMAIN entity.attributes}

\* name is spelled as some attribute of the entity, in any letter case
SpellsAttribute(entity, name) ==
    \E i \in DOMAIN entity.attributes : lower(entity.attributes[i].k) = lower(name)

\* C24: after a successful validation every select entry and every orderby
\* field is the canonical wire name (api_name) of an attribute, and a query
\* over a collection whose only facets are select entries spelling attributes
\* in some letter case is accepted, not rejected.
C24_CanonicalNames ==
    [][(/\ ncalls' = ncalls /\ GenerateValidated
        /\ metadata # None
        /\ root.target # None /\ IsCollection(root))
       => LET entity == ResolvedEntity(root.target[1]).entity[1]
          IN  /\ ~IsRaise(ret')
                    => /\ \A i \in DOMAIN root'.select :
                              root'.select[i] \in ApiNames(entity)
                       /\ \A i \in DOMAIN root'.orderby :
                              root'.orderby[i].field \in ApiNames(entity)
              /\ (/\ _present_parts(root) = {"SELECT"}
                  /\ \A i \in DOMAIN root.select :
                         SpellsAttribute(entity, root.select[i]))
                    => ~IsRaise(ret')]_vars

-----------------------------------------------------------------------------
\* the runtime kinds of literal that belong to the family of an EDM type
EdmFamily(full_type) ==
    CASE full_type = "Edm.String" -> {"str"}
      [] full_type = "Edm.Boolean" -> {"bool"}
      [] full_type \in {"Edm.Int16", "Edm.Int32", "Edm.Int64"} -> {"int"}
      [] full_type \in {"Edm.Decimal", "Edm.Double", "Edm.Single"} -> {"int"}
      [] full_type = "Edm.Guid" -> {"str"}
      [] full_type = "Edm.DateTimeOffset" -> {"str"}
      [] OTHER -> {}

\* the attribute of contact that a Prop names exactly, if it is an EDM
\* primitive sent under that same name
ContactPrimitive(node) ==
    IF node.ty = "Prop"
       /\ dict_get(ContactEntity.attributes, node.name) # None
       /\ dict_get(ContactEntity.attributes, node.name)[1].type_element = Some("edm")
       /\ dict_get(ContactEntity.attributes, node.name)[1].api_name = node.name
    THEN dict_get(ContactEntity.attributes, node.name)
    ELSE None

\* a Literal whose runtime kind belongs to the attribute's family
Fits(attr, node) ==
    /\ node.ty = "Literal"
    /\ node.value.ty \in EdmFamily(attr.full_type)
    /\ attr.full_type = "Edm.Guid" => _is_guid(node.value.s)

\* a filter built from the vocabulary whose Props are known primitives of
\* contact and whose Literals match them
RECURSIVE WellTyped(_)
WellTyped(expr) ==
    CASE expr.ty \in {"And", "Or"} ->
            \A i \in DOMAIN expr.terms : WellTyped(expr.terms[i])
      [] expr.ty = "Not" -> WellTyped(expr.expr)
      [] expr.ty \in CoercingBinaryKinds ->
            /\ ContactPrimitive(expr.left) # None
            /\ Fits(ContactPrimitive(expr.left)[1], expr.right)
      [] expr.ty = "In_" ->
            /\ ContactPrimitive(expr.left) # None
            /\ \A i \in DOMAIN expr.options :
                   Fits(ContactPrimitive(expr.left)[1], expr.options[i])
      [] OTHER -> FALSE

\* C25: filter validation recognises every node kind.  A filter over contacts
\* built from And, Or, Not, the six comparisons, the three string predicates
\* and In_, whose Props are known attributes and whose Literals match their
\* types, passes generate(validate=True) without an error.
C25_VocabularyValidates ==
    [][(/\ ncalls' = ncalls /\ GenerateValidated
        /\ metadata # None
        /\ root.target # None /\ IsCollection(root)
        /\ root.filter # None /\ WellTyped(root.filter[1]))
       => ~IsRaise(ret')]_vars

-----------------------------------------------------------------------------
\* C26: for an attribute classified as an EDM primitive, validating a
\* comparison raises whenever the literal's runtime kind lies outside the
\* attribute's EDM family; no EDM type accepts a mismatching literal.
C26_MismatchingLiteralRaises ==
    [][(/\ ncalls' = ncalls /\ GenerateValidated
        /\ metadata # None
        /\ root.target # None /\ IsCollection(root)
        /\ root.filter # None
        /\ root.filter[1].ty \in ComparisonKinds
        /\ ContactPrimitive(root.filter[1].left) # None
        /\ root.filter[1].right.ty = "Literal"
        /\ root.filter[1].right.value.ty
               \notin EdmFamily(ContactPrimitive(root.filter[1].left)[1].full_type))
       => IsRaise(ret')]_vars

-----------------------------------------------------------------------------
\* the entity a focus navigation of a not yet validated target leads to
FocusDestination(t) ==
    LET nav == get_navigation_property(Schema, t.focus[1],
                                       get_entity(Schema, t.entity_set).entity)
    IN  IF nav.item = None THEN None
        ELSE get_entity(Schema, nav.item[1].to_entity_type).entity

\* C27: validating an entity-collection target with a focus navigation
\* resolves the navigation against the entity's navigation properties and
\* raises a lookup error when the navigation's target entity has no bound
\* entity-set name.
C27_FocusNeedsEntitySet ==
    [][(/\ ncalls' = ncalls /\ GenerateValidated
        /\ metadata # None
        /\ root.target # None /\ root.target[1].cls = "FromTarget"
        /\ root.target[1].focus # None /\ root.target[1].focus_entity = None
        /\ FocusDestination(root.target[1]) # None
        /\ FocusDestination(root.target[1])[1].entity_set_name = None)
       => IsRaise(ret') /\ ret'.exc = "ValidationLookupError"]_vars

-----------------------------------------------------------------------------
\* a Prop or a Literal
IsPropOrLiteral(x) == x.ty \in {"Prop", "Literal"}

\* the leaf positions of a comparison, string predicate or membership node
LeafPositions(node) ==
    IF node.ty = "In_"
    THEN {node.left} \cup {node.options[i] : i \in DOMAIN node.options}
    ELSE {node.left, node.right}

\* C28: in every comparison, string-predicate and membership node the
\* constructors produce, the left and right (subject and argument) positions
\* and every option hold only a Prop or a Literal, whatever was passed in:
\* raw scalars, strings or nodes already built.
C28_LeafPositionsHoldLeaves ==
    /\ out # PyNone => \A x \in LeafPositions(out) : IsPropOrLiteral(x)
    /\ out2 # PyNone => \A x \in LeafPositions(out2) : IsPropOrLiteral(x)

-----------------------------------------------------------------------------
\* C29: in every ServiceMetadata built from a parsed schema each entity-set
\* name resolves to its bound declared entity: the entity name of every
\* (set name, entity name) pair is a key of entities, and get_entity of the
\* set name returns exactly that entity, whatever other entity and
\* entity-set names the schema declares.
C29_EntitySetResolvesToItsEntity ==
    /\ out # PyNone =>
          \A i \in DOMAIN out.entity_sets :
              dict_get(out.entities, out.entity_sets[i].v) # None
    /\ out2 # PyNone =>
          /\ out2.name = dict_get(out.entity_sets, fn)
          /\ out2.entity = dict_get(out.entities, dict_get(out.entity_sets, fn)[1])

-----------------------------------------------------------------------------
\* the value a schema object holds under a key, if any
ValueOf(schema, key) == dict_get(schema.items, key)

\* a schema object carrying the five required keys with well-typed values:
\* namespace and alias a string or null, the other three an object
WellFormedSchema(schema) ==
    /\ schema.ty = "dict"
    /\ \A key \in {"namespace", "alias"} :
           ValueOf(schema, key) # None /\ ValueOf(schema, key)[1].ty \in {"str", "none"}
    /\ \A key \in {"entities", "enums", "complex_types"} :
           ValueOf(schema, key) # None /\ ValueOf(schema, key)[1].ty = "dict"

\* a list of well-formed schema objects
WellFormedCache(data) ==
    /\ data.ty = "list"
    /\ \A i \in DOMAIN data.items : WellFormedSchema(data.items[i])

\* C30: loading a cached schema raises the schema-load error exactly when the
\* data is not a list of objects, or a schema object lacks one of namespace,
\* alias, entities, enums, complex_types, or gives one of them the wrong
\* type; data whose schema objects carry those five keys with well-typed
\* values is accepted.
C30_CachedSchemaAccepted ==
    /\ out # PyNone =>
          IF WellFormedCache(arg) THEN out = Return(PyNone)
          ELSE IsRaise(out) /\ out.exc = "EdmxSourceError"
    /\ out2 # PyNone =>
          IF WellFormedCache(IF arg.ty = "dict" THEN PyList(<<arg>>) ELSE arg)
          THEN out2 = Return(PyNone)
          ELSE IsRaise(out2) /\ out2.exc = "EdmxSourceError"

=============================================================================
